---- MODULE Spec2Model ----
(***************************************************************************)
(* Titan engine: the Document - Style - Layout pipeline of rust_engine.    *)
(*                                                                         *)
(*   css.rs     CSSEngine: parse_stylesheet, parse_declaration_list,       *)
(*              compute_style and the value parsers                        *)
(*   html.rs    Document::from_rcdom / traverse_node, Element              *)
(*   layout.rs  LayoutEngine: compute_layout, update_element_layout        *)
(*                                                                         *)
(* Strings are TLA+ strings (Len, SubSeq and \o work on them).  A CSS text *)
(* is held as the tokens cssparser's tokenizer makes of it, whitespace and *)
(* comments left out, since Parser::next skips them.  An f32 is held in    *)
(* fixed point, as the integer Scale * x.                                  *)
(***************************************************************************)
EXTENDS Integers, Sequences, FiniteSets, TLC

VARIABLES
    cssInput,      \* the rules a stylesheet text is written from
    sheet,         \* parse_stylesheet's result on that text, or NoSheet
    declList,      \* parse_declaration_list's result on the declarations of
                   \* the first rule, written as a style attribute, or NoDecls
    element,       \* the Element handed to compute_style
    sheets,        \* the stylesheet list handed to compute_style
    computed,      \* compute_style's result, or NoStyle before the call
    rcdom,         \* the RcDom handed to Document::from_rcdom
    document,      \* the Document, or NoDocument before construction
    engine,        \* the LayoutEngine: taffy, the two maps, layout_cache
    layoutDoc,     \* the Document handed to compute_layout
    layoutSheets,  \* the stylesheets handed to compute_layout
    layoutResult,  \* the last compute_layout result: [ok, tree]
    layoutCalls,   \* compute_layout / update_element_layout calls so far
    layoutLast,    \* the last of these calls, its arguments and the call
                   \* before it, or NoCall
    applyStyle,    \* the ComputedStyle apply_declaration writes to
    applyDecl,     \* the Declaration last applied to it, or NoDeclaration
    applyCount,    \* apply_declaration calls so far
    hitCall,       \* the last hit_test / element_at_point call: its point,
                   \* the boxes it was answered from and its result, or
                   \* NoHit
    pages,         \* the load_page calls on one TitanEngine: for each its
                   \* position, what it holds and the calls it has made
    layoutLock,    \* the holder of layout_engine's write lock, or "free"
    query,         \* the last call of a function that only reads: its name,
                   \* its arguments and its result, or NoQuery
    cssEngines     \* the CSSEngine instances made with CSSEngine::new()

vars == <<cssInput, sheet, declList, element, sheets, computed,
          rcdom, document, engine, layoutDoc, layoutSheets, layoutResult,
          layoutCalls, layoutLast, applyStyle, applyDecl, applyCount,
          hitCall, pages, layoutLock, query, cssEngines>>

cssVars == <<cssInput, sheet, declList>>
cascadeVars == <<element, sheets, computed>>
domVars == <<rcdom, document>>
layoutVars == <<engine, layoutDoc, layoutSheets, layoutResult, layoutCalls,
                layoutLast>>
applyVars == <<applyStyle, applyDecl, applyCount>>
hitVars == <<hitCall>>
pageVars == <<pages, layoutLock>>
queryVars == <<query, cssEngines>>
restVars == <<applyVars, hitVars, pageVars, queryVars>>

----------------------------------------------------------------------------
(* Strings *)

Max(a, b) == IF a >= b THEN a ELSE b

CharAt(s, i) == SubSeq(s, i, i)

IsSpace(c) == c = " "

RECURSIVE TrimStart(_)
TrimStart(s) ==
    IF Len(s) > 0 /\ IsSpace(CharAt(s, 1)) THEN TrimStart(Tail(s)) ELSE s

RECURSIVE TrimEnd(_)
TrimEnd(s) ==
    IF Len(s) > 0 /\ IsSpace(CharAt(s, Len(s)))
    THEN TrimEnd(SubSeq(s, 1, Len(s) - 1))
    ELSE s

\* str::trim
Trim(s) == TrimEnd(TrimStart(s))

\* str::find: the first index (from 1) where pat occurs, 0 for None
Find(s, pat) ==
    LET hits == {i \in 1..(Len(s) - Len(pat) + 1) :
                    SubSeq(s, i, i + Len(pat) - 1) = pat}
    IN IF hits = {} THEN 0 ELSE CHOOSE i \in hits : \A j \in hits : i <= j

\* str::split_whitespace
RECURSIVE SplitFrom(_, _, _)
SplitFrom(s, cur, acc) ==
    IF Len(s) = 0 THEN (IF cur = "" THEN acc ELSE Append(acc, cur))
    ELSE IF IsSpace(CharAt(s, 1))
         THEN SplitFrom(Tail(s), "", IF cur = "" THEN acc ELSE Append(acc, cur))
         ELSE SplitFrom(Tail(s), cur \o CharAt(s, 1), acc)

SplitWhitespace(s) == SplitFrom(s, "", <<>>)

UpperChars == <<"A","B","C","D","E","F","G","H","I","J","K","L","M",
                "N","O","P","Q","R","S","T","U","V","W","X","Y","Z">>
LowerChars == <<"a","b","c","d","e","f","g","h","i","j","k","l","m",
                "n","o","p","q","r","s","t","u","v","w","x","y","z">>

ToLowerChar(c) ==
    IF \E i \in 1..26 : UpperChars[i] = c
    THEN LowerChars[CHOOSE i \in 1..26 : UpperChars[i] = c]
    ELSE c

RECURSIVE ToAsciiLower(_)
ToAsciiLower(s) ==
    IF Len(s) = 0 THEN "" ELSE ToLowerChar(CharAt(s, 1)) \o ToAsciiLower(Tail(s))

\* str::eq_ignore_ascii_case
EqIgnoreAsciiCase(a, b) == ToAsciiLower(a) = ToAsciiLower(b)

Digits == <<"0","1","2","3","4","5","6","7","8","9">>

IsDigit(c) == \E i \in 1..10 : Digits[i] = c

DigitVal(c) == (CHOOSE i \in 1..10 : Digits[i] = c) - 1

RECURSIVE DigitsVal(_, _)
DigitsVal(s, acc) ==
    IF Len(s) = 0 THEN acc
    ELSE DigitsVal(Tail(s), acc * 10 + DigitVal(CharAt(s, 1)))

AllDigits(s) == Len(s) > 0 /\ \A i \in 1..Len(s) : IsDigit(CharAt(s, i))

\* Option<f32> is [some, v]
None == [some |-> FALSE, v |-> 0]
Some(x) == [some |-> TRUE, v |-> x]

\* An f32 x is held as the integer Scale * x: the literals of the inputs
\* have at most two fraction digits
Scale == 100

F(n) == n * Scale

\* the fraction digits of a literal, in units of 1 / Scale
FracVal(s) ==
    IF Len(s) = 0 THEN 0
    ELSE IF Len(s) = 1 THEN DigitsVal(s, 0) * 10
    ELSE DigitsVal(s, 0)

\* digits, digits.digits, digits. or .digits
UnsignedOf(int, frac) ==
    IF /\ Len(int) + Len(frac) > 0
       /\ (int = "" \/ AllDigits(int))
       /\ (frac = "" \/ (AllDigits(frac) /\ Len(frac) <= 2))
    THEN Some((IF int = "" THEN 0 ELSE F(DigitsVal(int, 0))) + FracVal(frac))
    ELSE None

ParseUnsignedAt(s, dot) ==
    UnsignedOf(IF dot = 0 THEN s ELSE SubSeq(s, 1, dot - 1),
               IF dot = 0 THEN "" ELSE SubSeq(s, dot + 1, Len(s)))

ParseUnsigned(s) == ParseUnsignedAt(s, Find(s, "."))

HasSign(s, sign) == Len(s) > 1 /\ CharAt(s, 1) = sign

Signed(o, negative) == IF o.some /\ negative THEN Some(0 - o.v) ELSE o

\* str::parse::<f32>().ok() on the literals of the inputs: an optional sign
\* and a decimal number; any other text of the inputs is no number
ParseF32(s) ==
    Signed(ParseUnsigned(IF HasSign(s, "-") \/ HasSign(s, "+")
                         THEN Tail(s) ELSE s),
           HasSign(s, "-"))

----------------------------------------------------------------------------
(* cssparser: tokens and Parser *)

Tok(t, s) == [t |-> t, s |-> s]
TIdent(s) == Tok("Ident", s)
TDim(s) == Tok("Dimension", s)
TNum(s) == Tok("Number", s)
THash(s) == Tok("IDHash", "#" \o s)
TDot == Tok("Delim", ".")
TColon == Tok("Colon", ":")
TSemi == Tok("Semicolon", ";")
TComma == Tok("Comma", ",")
TOpen == Tok("CurlyBracketBlock", "{")
TClose == Tok("CloseCurlyBracket", "}")
NoTok == Tok("None", "")

\* Token::to_css_string
ToCssString(tok) == tok.s

\* Parser::new(&mut ParserInput::new(text)), on the tokens of the text
NewParser(toks) == [toks |-> toks, pos |-> 1, atStart |-> FALSE, stop |-> FALSE]

\* consume_until_end_of_block: the position after the bracket that closes
\* the block entered depth levels ago, or the end of the text
RECURSIVE BlockEnd(_, _, _)
BlockEnd(toks, pos, depth) ==
    IF pos > Len(toks) THEN pos
    ELSE IF toks[pos].t = "CloseCurlyBracket"
         THEN (IF depth = 1 THEN pos + 1 ELSE BlockEnd(toks, pos + 1, depth - 1))
    ELSE IF toks[pos].t = "CurlyBracketBlock"
         THEN BlockEnd(toks, pos + 1, depth + 1)
    ELSE BlockEnd(toks, pos + 1, depth)

\* Parser::next, first step: a block whose opening token was the last one
\* returned, and that no parse_nested_block entered, is skipped
SkipPendingBlock(p) ==
    IF p.atStart
    THEN [p EXCEPT !.pos = BlockEnd(p.toks, p.pos, 1), !.atStart = FALSE]
    ELSE p

\* Parser::next, second step: the next token, or the end of the input; a
\* nested parser stops before the bracket that closes its block
NextToken(q) ==
    IF q.pos > Len(q.toks) THEN [p |-> q, ok |-> FALSE, tok |-> NoTok]
    ELSE IF q.stop /\ q.toks[q.pos].t = "CloseCurlyBracket"
         THEN [p |-> q, ok |-> FALSE, tok |-> NoTok]
    ELSE [p |-> [q EXCEPT !.pos = q.pos + 1,
                          !.atStart = (q.toks[q.pos].t = "CurlyBracketBlock")],
          ok |-> TRUE, tok |-> q.toks[q.pos]]

\* Parser::next
ParserNext(p) == NextToken(SkipPendingBlock(p))

\* Parser::is_exhausted: next() on a saved state, which is then restored
IsExhausted(p) == ~ParserNext(p).ok

\* Parser::expect_colon / expect_curly_bracket_block: the token n read by
\* next() is consumed whether or not it is the expected one
Expected(n, t) == [p |-> n.p, ok |-> n.ok /\ n.tok.t = t]

Expect(p, t) == Expected(ParserNext(p), t)

----------------------------------------------------------------------------
(* css.rs: the rule and declaration parsers.  A loop                       *)
(* `while !parser.is_exhausted() { match parser.next() ..` reads one token *)
(* n per turn: it ends with the parser as it was when n is the end of the  *)
(* input, is_exhausted having restored it.                                 *)

Declaration(property, value) == [property |-> property, value |-> value]

\* parse_declaration, the value loop: tokens joined by one space up to the
\* next semicolon, which is consumed, or the end of the input
RECURSIVE ParseValue(_, _)
ParseValueToken(p, value, n) ==
    IF ~n.ok THEN [p |-> p, value |-> value]
    ELSE IF n.tok.t = "Semicolon" THEN [p |-> n.p, value |-> value]
    ELSE ParseValue(n.p, (IF value # "" THEN value \o " " ELSE value)
                             \o ToCssString(n.tok))

ParseValue(p, value) == ParseValueToken(p, value, ParserNext(p))

NoDeclaration(p) == [p |-> p, ok |-> FALSE, decl |-> Declaration("", "")]

\* parse_declaration, from the value on
DeclarationValue(property, v) ==
    [p |-> v.p, ok |-> TRUE, decl |-> Declaration(property, Trim(v.value))]

\* parse_declaration, from expect_colon on
DeclarationColon(property, c) ==
    IF ~c.ok THEN NoDeclaration(c.p)
    ELSE DeclarationValue(property, ParseValue(c.p, ""))

\* parse_declaration, the property name
DeclarationName(n) ==
    IF ~(n.ok /\ n.tok.t = "Ident") THEN NoDeclaration(n.p)
    ELSE DeclarationColon(n.tok.s, Expect(n.p, "Colon"))

\* CSSEngine::parse_declaration
ParseDeclaration(p) == DeclarationName(ParserNext(p))

\* parse_declaration_list_from_parser, "Skip to next declaration": tokens
\* are read up to and including the next semicolon
RECURSIVE SkipToSemicolon(_)
SkipToSemicolonToken(p, n) ==
    IF ~n.ok THEN p
    ELSE IF n.tok.t = "Semicolon" THEN n.p
    ELSE SkipToSemicolon(n.p)

SkipToSemicolon(p) == SkipToSemicolonToken(p, ParserNext(p))

\* the skip that follows each parse_declaration call
SkipAfterDeclaration(p) == SkipToSemicolon(p)

\* CSSEngine::parse_declaration_list_from_parser
RECURSIVE ParseDeclarationListFromParser(_, _)
DeclarationListTurn(declarations, d) ==
    ParseDeclarationListFromParser(
        SkipAfterDeclaration(d.p),
        IF d.ok THEN Append(declarations, d.decl) ELSE declarations)

ParseDeclarationListFromParser(p, declarations) ==
    IF IsExhausted(p) THEN [p |-> p, declarations |-> declarations]
    ELSE DeclarationListTurn(declarations, ParseDeclaration(p))

\* CSSEngine::parse_declaration_list
ParseDeclarationList(css) ==
    ParseDeclarationListFromParser(NewParser(css), <<>>).declarations

\* Parser::parse_nested_block, after the closure: a block the nested parser
\* left open is consumed, then what is left of the nested block
NestedBlockEnd(p, r) ==
    [p |-> [p EXCEPT !.pos = BlockEnd(p.toks,
                                      IF r.p.atStart
                                      THEN BlockEnd(p.toks, r.p.pos, 1)
                                      ELSE r.p.pos,
                                      1),
                     !.atStart = FALSE],
     declarations |-> r.declarations]

\* Parser::parse_nested_block around parse_declaration_list_from_parser
ParseNestedBlock(p) ==
    NestedBlockEnd(p, ParseDeclarationListFromParser(
                          [p EXCEPT !.atStart = FALSE, !.stop = TRUE], <<>>))

\* CSSEngine::parse_selector_list: the tokens up to the next curly bracket
\* block, which is consumed, concatenated
RECURSIVE ParseSelectorList(_, _)
SelectorToken(p, selector, n) ==
    IF ~n.ok THEN [p |-> p, selector |-> Trim(selector)]
    ELSE IF n.tok.t = "CurlyBracketBlock"
         THEN [p |-> n.p, selector |-> Trim(selector)]
    ELSE ParseSelectorList(n.p, selector \o ToCssString(n.tok))

ParseSelectorList(p, selector) == SelectorToken(p, selector, ParserNext(p))

\* CSSRule::StyleRule(StyleRule { selectors, declarations })
StyleRule(selectors, declarations) ==
    [kind |-> "StyleRule", selectors |-> selectors, declarations |-> declarations]

\* parse_rule, the Ok(..) it returns
RuleOf(selector, b) ==
    [p |-> b.p, ok |-> TRUE, rule |-> StyleRule(<<selector>>, b.declarations)]

\* parse_rule, from expect_curly_bracket_block()? on
RuleBlock(selector, e) ==
    IF ~e.ok THEN [p |-> e.p, ok |-> FALSE, rule |-> StyleRule(<<>>, <<>>)]
    ELSE RuleOf(selector, ParseNestedBlock(e.p))

\* parse_rule, after parse_selector_list
RuleAfterSelector(s) == RuleBlock(s.selector, Expect(s.p, "CurlyBracketBlock"))

\* CSSEngine::parse_rule
ParseRule(p) == RuleAfterSelector(ParseSelectorList(p, ""))

\* parse_stylesheet, "Skip to next rule": tokens are read up to and
\* including the next curly bracket block token
RECURSIVE SkipToBlock(_)
SkipToBlockToken(p, n) ==
    IF ~n.ok THEN p
    ELSE IF n.tok.t = "CurlyBracketBlock" THEN n.p
    ELSE SkipToBlock(n.p)

SkipToBlock(p) == SkipToBlockToken(p, ParserNext(p))

\* parse_stylesheet, the rule loop
RECURSIVE ParseRules(_, _)
ParseRulesTurn(rules, r) ==
    IF r.ok THEN ParseRules(r.p, Append(rules, r.rule))
    ELSE ParseRules(SkipToBlock(r.p), rules)

ParseRules(p, rules) ==
    IF IsExhausted(p) THEN rules ELSE ParseRulesTurn(rules, ParseRule(p))

\* CSSEngine::parse_stylesheet: Ok(Stylesheet) on every path
ParseStylesheet(css, origin) ==
    [ok |-> TRUE, rules |-> ParseRules(NewParser(css), <<>>), origin |-> origin]

----------------------------------------------------------------------------
(* css.rs: value parsers *)

\* core.rs Color: each f32 channel c is held as the integer 255 * c
Color(r, g, b, a) == [r |-> r, g |-> g, b |-> b, a |-> a]
ColorBlack == Color(0, 0, 0, 255)
ColorWhite == Color(255, 255, 255, 255)
ColorTransparent == Color(0, 0, 0, 0)

\* cssparser's Color::parse on the colour words of the inputs: a named
\* colour is RGBA, currentcolor is not RGBA, other text fails
CssColorOf(w) ==
    CASE w = "red" -> [ok |-> TRUE, rgba |-> TRUE, c |-> Color(255, 0, 0, 255)]
      [] w = "green" -> [ok |-> TRUE, rgba |-> TRUE, c |-> Color(0, 128, 0, 255)]
      [] w = "blue" -> [ok |-> TRUE, rgba |-> TRUE, c |-> Color(0, 0, 255, 255)]
      [] w = "yellow" -> [ok |-> TRUE, rgba |-> TRUE, c |-> Color(255, 255, 0, 255)]
      [] w = "white" -> [ok |-> TRUE, rgba |-> TRUE, c |-> ColorWhite]
      [] w = "black" -> [ok |-> TRUE, rgba |-> TRUE, c |-> ColorBlack]
      [] w = "transparent" -> [ok |-> TRUE, rgba |-> TRUE, c |-> ColorTransparent]
      [] w = "currentcolor" -> [ok |-> TRUE, rgba |-> FALSE, c |-> ColorBlack]
      [] OTHER -> [ok |-> FALSE, rgba |-> FALSE, c |-> ColorBlack]

CssColorParse(value) == CssColorOf(ToAsciiLower(value))

\* parse_color, the match on the result of Color::parse: the fallback
\* table is read only when Color::parse failed
ColorOf(css, w) ==
    IF css.ok THEN (IF css.rgba THEN Some(css.c) ELSE None)
    ELSE CASE w = "red" -> Some(Color(255, 0, 0, 255))
           [] w = "green" -> Some(Color(0, 255, 0, 255))
           [] w = "blue" -> Some(Color(0, 0, 255, 255))
           [] w = "white" -> Some(ColorWhite)
           [] w = "black" -> Some(ColorBlack)
           [] w = "transparent" -> Some(ColorTransparent)
           [] OTHER -> None

\* CSSEngine::parse_color
ParseColor(value) == ColorOf(CssColorParse(value), ToAsciiLower(value))

EmBase == 16

MapSome(o, k) == IF o.some THEN Some(o.v * k) ELSE None

\* parse_length, the chain of `if let Some(..) = value.find(..)`: the
\* first unit found, in the order px, em, rem, %
LengthUnit(value) ==
    IF Find(value, "px") > 0 THEN "px"
    ELSE IF Find(value, "em") > 0 THEN "em"
    ELSE IF Find(value, "rem") > 0 THEN "rem"
    ELSE IF Find(value, "%") > 0 THEN "%"
    ELSE ""

\* value[..pos], or the whole value when no unit was found
BeforeUnit(value, unit) ==
    IF unit = "" THEN value ELSE SubSeq(value, 1, Find(value, unit) - 1)

\* `.map(|v| v * 16.0)` for em and rem, the number itself otherwise
UnitFactor(unit) == IF unit \in {"em", "rem"} THEN EmBase ELSE 1

ParseLengthUnit(value, unit) ==
    MapSome(ParseF32(BeforeUnit(value, unit)), UnitFactor(unit))

\* CSSEngine::parse_length
ParseLength(value) == ParseLengthUnit(value, LengthUnit(value))

U16Max == 65535

\* str::parse::<u16>().ok()
U16Of(d) ==
    IF AllDigits(d) /\ DigitsVal(d, 0) <= U16Max THEN Some(DigitsVal(d, 0))
    ELSE None

ParseU16(s) == U16Of(IF HasSign(s, "+") THEN Tail(s) ELSE s)

\* CSSEngine::parse_font_weight
ParseFontWeight(value) ==
    CASE value = "normal" -> Some(400)
      [] value = "bold" -> Some(700)
      [] value = "lighter" -> Some(300)
      [] value = "bolder" -> Some(600)
      [] OTHER -> ParseU16(value)

\* CSSEngine::parse_display
ParseDisplay(value) ==
    CASE value = "block" -> Some("Block")
      [] value = "inline" -> Some("Inline")
      [] value = "inline-block" -> Some("InlineBlock")
      [] value = "flex" -> Some("Flex")
      [] value = "grid" -> Some("Grid")
      [] value = "none" -> Some("None")
      [] OTHER -> None

\* CSSEngine::parse_position
ParsePosition(value) ==
    CASE value = "static" -> Some("Static")
      [] value = "relative" -> Some("Relative")
      [] value = "absolute" -> Some("Absolute")
      [] value = "fixed" -> Some("Fixed")
      [] value = "sticky" -> Some("Sticky")
      [] OTHER -> None

\* BoxValues::new / all / zero
BoxValues(top, right, bottom, left) ==
    [top |-> top, right |-> right, bottom |-> bottom, left |-> left]
BoxAll(v) == BoxValues(v, v, v, v)
BoxZero == BoxAll(0)

PushSome(o, rest) == (IF o.some THEN <<o.v>> ELSE <<>>) \o rest

\* filter_map(|v| self.parse_length(v)): the lengths that parse, in order
RECURSIVE FilterLengths(_)
FilterLengths(words) ==
    IF words = <<>> THEN <<>>
    ELSE PushSome(ParseLength(Head(words)), FilterLengths(Tail(words)))

\* parse_box_values, the match on values.len()
BoxOf(values) ==
    CASE Len(values) = 1 -> BoxAll(values[1])
      [] Len(values) = 2 -> BoxValues(values[1], values[2], values[1], values[2])
      [] Len(values) = 3 -> BoxValues(values[1], values[2], values[3], values[2])
      [] Len(values) = 4 -> BoxValues(values[1], values[2], values[3], values[4])
      [] OTHER -> BoxZero

\* CSSEngine::parse_box_values
ParseBoxValues(value) == BoxOf(FilterLengths(SplitWhitespace(value)))

UnwrapOr(o, d) == IF o.some THEN o.v ELSE d

----------------------------------------------------------------------------
(* css.rs: the cascade *)

EmptyMap == [k \in {} |-> ""]

\* an insert that keeps the value a key already has
MapInsertIfAbsent(m, k, v) ==
    [x \in DOMAIN m \cup {k} |-> IF x \in DOMAIN m THEN m[x] ELSE v]

\* HashMap::insert
MapInsert(m, k, v) == [x \in DOMAIN m \cup {k} |-> IF x = k THEN v ELSE m[x]]

\* ComputedStyle::default
DefaultStyle ==
    [color |-> ColorBlack,
     background_color |-> ColorTransparent,
     font_size |-> F(16),
     font_family |-> "serif",
     font_weight |-> 400,
     display |-> "Block",
     position |-> "Static",
     width |-> None,
     height |-> None,
     margin |-> BoxZero,
     padding |-> BoxZero,
     border_width |-> BoxZero,
     custom_properties |-> EmptyMap]

\* apply_declaration with every property taken through its last arm
ApplyAsCustomProperty(cs, d) ==
    [cs EXCEPT !.custom_properties =
                   MapInsert(cs.custom_properties, d.property, d.value)]

\* CSSEngine::apply_declaration
ApplyDeclaration(cs, d) ==
    CASE d.property = "color" ->
           [cs EXCEPT !.color = UnwrapOr(ParseColor(d.value), ColorBlack)]
      [] d.property = "background-color" ->
           [cs EXCEPT !.background_color =
                          UnwrapOr(ParseColor(d.value), ColorTransparent)]
      [] d.property = "font-size" ->
           [cs EXCEPT !.font_size = UnwrapOr(ParseLength(d.value), F(16))]
      [] d.property = "font-family" ->
           [cs EXCEPT !.font_family = d.value]
      [] d.property = "font-weight" ->
           [cs EXCEPT !.font_weight = UnwrapOr(ParseFontWeight(d.value), 400)]
      [] d.property = "display" ->
           [cs EXCEPT !.display = UnwrapOr(ParseDisplay(d.value), "Block")]
      [] d.property = "position" ->
           [cs EXCEPT !.position = UnwrapOr(ParsePosition(d.value), "Static")]
      [] d.property = "width" -> [cs EXCEPT !.width = ParseLength(d.value)]
      [] d.property = "height" -> [cs EXCEPT !.height = ParseLength(d.value)]
      [] d.property = "margin" -> [cs EXCEPT !.margin = ParseBoxValues(d.value)]
      [] d.property = "padding" -> [cs EXCEPT !.padding = ParseBoxValues(d.value)]
      [] d.property = "border-width" ->
           [cs EXCEPT !.border_width = ParseBoxValues(d.value)]
      [] OTHER ->
           [cs EXCEPT !.custom_properties =
                          MapInsert(cs.custom_properties, d.property, d.value)]

\* for declaration in declarations { apply_declaration }
RECURSIVE ApplyDeclarations(_, _)
ApplyDeclarations(cs, declarations) ==
    IF declarations = <<>> THEN cs
    ELSE ApplyDeclarations(ApplyDeclaration(cs, Head(declarations)),
                           Tail(declarations))

\* Element::get_attribute: [some, v]
GetAttribute(el, name) ==
    IF name \in DOMAIN el.attributes THEN Some(el.attributes[name]) ELSE None

\* split_whitespace().any(|c| c == word)
HasWord(words, word) == \E i \in DOMAIN words : words[i] = word

\* Element::matches_selector
MatchesSelector(el, selector) ==
    IF Len(selector) > 0 /\ CharAt(selector, 1) = "#"
    THEN GetAttribute(el, "id") = Some(Tail(selector))
    ELSE IF Len(selector) > 0 /\ CharAt(selector, 1) = "."
    THEN /\ GetAttribute(el, "class").some
         /\ HasWord(SplitWhitespace(GetAttribute(el, "class").v), Tail(selector))
    ELSE EqIgnoreAsciiCase(el.tag_name, selector)

\* CSSEngine::selector_matches
SelectorMatches(selector, el) == MatchesSelector(el, selector)

\* compute_style, the selector loop of one rule: the declarations are
\* applied once for every selector of the rule that matches
RECURSIVE ApplySelectors(_, _, _, _)
ApplySelectors(cs, el, selectors, declarations) ==
    IF selectors = <<>> THEN cs
    ELSE ApplySelectors(
             IF SelectorMatches(Head(selectors), el)
             THEN ApplyDeclarations(cs, declarations) ELSE cs,
             el, Tail(selectors), declarations)

\* a rule loop that walks the rules last to first, so that the earliest
\* matching rule has the last word
RECURSIVE ApplyRulesEarliestWins(_, _, _)
ApplyRulesEarliestWins(cs, el, rules) ==
    IF rules = <<>> THEN cs
    ELSE ApplySelectors(ApplyRulesEarliestWins(cs, el, Tail(rules)),
                        el, Head(rules).selectors, Head(rules).declarations)

\* compute_style, the rule loop of one stylesheet
RECURSIVE ApplyRules(_, _, _)
ApplyRules(cs, el, rules) ==
    IF rules = <<>> THEN cs
    ELSE ApplyRules(
             IF Head(rules).kind = "StyleRule"
             THEN ApplySelectors(cs, el, Head(rules).selectors,
                                 Head(rules).declarations)
             ELSE cs,
             el, Tail(rules))

\* compute_style, the stylesheet loop: the list is walked as handed over
RECURSIVE ApplySheets(_, _, _)
ApplySheets(cs, el, stylesheets) ==
    IF stylesheets = <<>> THEN cs
    ELSE ApplySheets(ApplyRules(cs, el, Head(stylesheets).rules),
                     el, Tail(stylesheets))

\* compute_style, "Apply inline styles"
ApplyInline(cs, el) ==
    IF GetAttribute(el, "style").some
    THEN ApplyDeclarations(cs, ParseDeclarationList(GetAttribute(el, "style").v))
    ELSE cs

\* CSSEngine::compute_style
ComputeStyle(el, stylesheets) ==
    ApplyInline(ApplySheets(DefaultStyle, el, stylesheets), el)

\* compute_style with its receiver: what the call leaves `&self` as, and the
\* style returned.  A variant that also cascades over the stylesheets the
\* CSSEngine has cached, and caches the ones handed over:
ComputeStyleCaching(css_engine, el, stylesheets) ==
    [css_engine |-> [css_engine EXCEPT !.stylesheet_cache = @ \o stylesheets],
     style |-> ComputeStyle(el, css_engine.stylesheet_cache \o stylesheets)]

\* css_engine.compute_style(element, stylesheets): `&self` is borrowed
\* shared and none of its fields is read
ComputeStyleOn(css_engine, el, stylesheets) ==
    [css_engine |-> css_engine, style |-> ComputeStyle(el, stylesheets)]

----------------------------------------------------------------------------
(* css.rs: Stylesheet::default_user_agent *)

Stylesheet(rules, origin) == [rules |-> rules, origin |-> origin]

\* Stylesheet::default_user_agent
DefaultUserAgent ==
    Stylesheet(
        <<StyleRule(<<"html">>, <<Declaration("display", "block")>>),
          StyleRule(<<"body">>, <<Declaration("display", "block"),
                                  Declaration("margin", "8px")>>),
          StyleRule(<<"h1">>, <<Declaration("display", "block"),
                                Declaration("font-size", "2em"),
                                Declaration("font-weight", "bold"),
                                Declaration("margin", "0.67em 0")>>)>>,
        "UserAgent")

\* CSSEngine::new
CSSEngineNew ==
    [user_agent_stylesheet |-> DefaultUserAgent, stylesheet_cache |-> <<>>]

----------------------------------------------------------------------------
(* html.rs: Element and Document *)

\* Element::new
ElementNew(tag_name, id) ==
    [id |-> id, tag_name |-> tag_name, attributes |-> EmptyMap,
     children |-> <<>>, parent |-> None, text_content |-> ""]

\* HashMap::remove
MapRemove(m, k) == [x \in DOMAIN m \ {k} |-> m[x]]

\* an insert that keeps the value a key already has
SetAttributeIfAbsent(el, name, value) ==
    IF name \in DOMAIN el.attributes THEN el
    ELSE [el EXCEPT !.attributes = MapInsert(@, name, value)]

\* Element::set_attribute
SetAttribute(el, name, value) ==
    [el EXCEPT !.attributes = MapInsert(@, name, value)]

\* Element::remove_attribute
RemoveAttribute(el, name) == [el EXCEPT !.attributes = MapRemove(@, name)]

\* Element::has_attribute
HasAttribute(el, name) == name \in DOMAIN el.attributes

\* Element::text_content
TextContent(el) == el.text_content

\* Element::find_child_by_tag
FindChildByTag(el, tag_name) == None

\* Document::new; an ElementId is held as a number, and ElementId::new()
\* gives the first number no element of the document has
DocumentNew(url) ==
    [built |-> TRUE, url |-> url, title |-> "", head |-> None, body |-> None,
     doctype |-> None, elements |-> (1 :> ElementNew("html", 1)),
     root |-> ElementNew("html", 1)]

FreshId(doc) == Cardinality(DOMAIN doc.elements) + 1

\* the nodes of html5ever's RcDom
RcDocument(children) == [kind |-> "Document", children |-> children]
RcDoctype(name) == [kind |-> "Doctype", name |-> name, children |-> <<>>]
RcText(contents) == [kind |-> "Text", contents |-> contents, children |-> <<>>]
RcComment == [kind |-> "Comment", children |-> <<>>]
RcElement(name, attrs, children) ==
    [kind |-> "Element", name |-> name, attrs |-> attrs, children |-> children]
Attr(name, value) == [name |-> name, value |-> value]

\* traverse_node, "Process attributes"
RECURSIVE InsertAttrs(_, _)
InsertAttrs(attributes, attrs) ==
    IF attrs = <<>> THEN attributes
    ELSE InsertAttrs(MapInsert(attributes, Head(attrs).name, Head(attrs).value),
                     Tail(attrs))

\* traverse_node, the element made of an Element node
ElementOf(node, id) ==
    [ElementNew(node.name, id) EXCEPT
        !.attributes = InsertAttrs(EmptyMap, node.attrs)]

\* traverse_node, "Set special references for html, head, body"
SetShortcut(doc, el) ==
    CASE el.tag_name = "html" -> [doc EXCEPT !.root = el]
      [] el.tag_name = "head" -> [doc EXCEPT !.head = Some(el)]
      [] el.tag_name = "body" -> [doc EXCEPT !.body = Some(el)]
      [] OTHER -> doc

\* traverse_node, "Add to elements map"
InsertElement(doc, el) ==
    [SetShortcut(doc, el) EXCEPT !.elements = MapInsert(@, el.id, el)]

RECURSIVE TraverseNode(_, _, _)
RECURSIVE TraverseChildren(_, _, _)

\* traverse_node, the NodeData::Element arm
TraverseElement(doc, node, id) ==
    TraverseChildren(InsertElement(doc, ElementOf(node, id)),
                     node.children, Some(id))

\* Document::traverse_node
TraverseNode(doc, node, parent_id) ==
    CASE node.kind = "Document" -> TraverseChildren(doc, node.children, None)
      [] node.kind = "Doctype" ->
           [doc EXCEPT !.doctype = Some([name |-> node.name,
                                         public_id |-> "", system_id |-> ""])]
      [] node.kind = "Text" -> doc
      [] node.kind = "Element" -> TraverseElement(doc, node, FreshId(doc))
      [] OTHER -> doc

\* for child in &node.children { self.traverse_node(child, ..) }
TraverseChildren(doc, children, parent_id) ==
    IF children = <<>> THEN doc
    ELSE TraverseChildren(TraverseNode(doc, Head(children), parent_id),
                          Tail(children), parent_id)

\* from_rcdom, "Extract title from head"
ExtractTitle(doc) ==
    IF doc.head.some /\ FindChildByTag(doc.head.v, "title").some
    THEN [doc EXCEPT !.title = TextContent(FindChildByTag(doc.head.v, "title").v)]
    ELSE doc

\* Document::from_rcdom, on dom.document
FromRcdom(dom) ==
    ExtractTitle(TraverseNode(DocumentNew("about:blank"), dom, None))

\* self.elements.values(): the ElementIds in the order the iteration visits
\* them, every key once; the order of a HashMap is unspecified and the
\* queries are read as collections, so the rising order stands for it
RECURSIVE Values(_)
Values(ids) ==
    IF ids = {} THEN <<>>
    ELSE LET first == CHOOSE id \in ids : \A other \in ids : id <= other
         IN <<first>> \o Values(ids \ {first})

\* .filter(pred).collect(), on the ids of the elements
RECURSIVE Filter(_, _, _, _)
Filter(doc, ids, Pred(_, _), arg) ==
    IF ids = <<>> THEN <<>>
    ELSE (IF Pred(doc.elements[Head(ids)], arg) THEN <<Head(ids)>> ELSE <<>>)
         \o Filter(doc, Tail(ids), Pred, arg)

\* get_elements_by_tag_name, the filter's closure
TagNameIs(el, tag_name) == EqIgnoreAsciiCase(el.tag_name, tag_name)

\* get_elements_by_class_name, the filter's closure
ClassNameHas(el, class_name) ==
    /\ GetAttribute(el, "class").some
    /\ HasWord(SplitWhitespace(GetAttribute(el, "class").v), class_name)

\* get_element_by_id, the find's closure
IdIs(el, id) == GetAttribute(el, "id") = Some(id)

\* Document::get_elements_by_tag_name: the ids of the elements returned
GetElementsByTagName(doc, tag_name) ==
    Filter(doc, Values(DOMAIN doc.elements), TagNameIs, tag_name)

\* Document::get_elements_by_class_name
GetElementsByClassName(doc, class_name) ==
    Filter(doc, Values(DOMAIN doc.elements), ClassNameHas, class_name)

\* Document::get_element_by_id: find gives the first match of the
\* iteration, which is any of the matches; the Options it can return
GetElementById(doc, id) ==
    IF \E e \in DOMAIN doc.elements : IdIs(doc.elements[e], id)
    THEN {Some(e) : e \in {x \in DOMAIN doc.elements : IdIs(doc.elements[x], id)}}
    ELSE {None}

----------------------------------------------------------------------------
(* taffy: styles, nodes and the layout of a tree *)

\* Dimension / LengthPercentageAuto: Length(v) or Auto
Length(v) == [auto |-> FALSE, v |-> v]
Auto == [auto |-> TRUE, v |-> 0]

TaffyRect(left, right, top, bottom) ==
    [left |-> left, right |-> right, top |-> top, bottom |-> bottom]

\* taffy's Layout of a node: location and size, and the padding, border and
\* margin its style resolved to (a Length resolves to itself)
Layout(x, y, width, height, style) ==
    [location |-> [x |-> x, y |-> y],
     size |-> [width |-> width, height |-> height],
     padding |-> [k \in DOMAIN style.padding |-> style.padding[k].v],
     border |-> [k \in DOMAIN style.border |-> style.border[k].v],
     margin |-> [k \in DOMAIN style.margin |-> style.margin[k].v]]

\* the Layout of a node that was not laid out, or is not displayed
NoLayout ==
    [location |-> [x |-> 0, y |-> 0], size |-> [width |-> 0, height |-> 0],
     padding |-> TaffyRect(0, 0, 0, 0), border |-> TaffyRect(0, 0, 0, 0),
     margin |-> TaffyRect(0, 0, 0, 0)]

\* Taffy::new_with_children: a Node is the index of its entry
TaffyNewWithChildren(taffy, style, children) ==
    Append(taffy, [style |-> style, children |-> children, layout |-> NoLayout])

\* Taffy::set_style
TaffySetStyle(taffy, node, style) == [taffy EXCEPT ![node].style = style]

InsetLeft(style) == style.border.left.v + style.padding.left.v
InsetTop(style) == style.border.top.v + style.padding.top.v
InsetRight(style) == style.border.right.v + style.padding.right.v
InsetBottom(style) == style.border.bottom.v + style.padding.bottom.v

\* the width of a block: its size.width, or what the available width
\* leaves after its margins
NodeWidth(style, avail) ==
    IF style.size.width.auto
    THEN Max(0, avail - style.margin.left.v - style.margin.right.v)
    ELSE style.size.width.v

InnerWidth(style, avail) ==
    Max(0, NodeWidth(style, avail) - InsetLeft(style) - InsetRight(style))

\* the height of a block: its size.height, or what its children take
NodeHeight(style, bottom) ==
    IF style.size.height.auto THEN Max(0, bottom + InsetBottom(style))
    ELSE style.size.height.v

RECURSIVE TaffyHide(_, _)
RECURSIVE TaffyHideAll(_, _)

\* a node with Display::None and all below it get the zero Layout
TaffyHide(taffy, node) ==
    TaffyHideAll([taffy EXCEPT ![node].layout = NoLayout], taffy[node].children)

TaffyHideAll(taffy, children) ==
    IF children = <<>> THEN taffy
    ELSE TaffyHideAll(TaffyHide(taffy, Head(children)), Tail(children))

RECURSIVE TaffyPlace(_, _, _, _, _)
RECURSIVE TaffyPlaceChildren(_, _, _, _, _)

\* the node's own Layout, once its children are placed: r is the tree and
\* the offset below the last child
TaffyPlaced(r, node, x, y, avail) ==
    [r.taffy EXCEPT ![node].layout =
        Layout(x, y, NodeWidth(r.taffy[node].style, avail),
               NodeHeight(r.taffy[node].style, r.y), r.taffy[node].style)]

\* block flow: a node at (x, y) of its parent's border box, its children
\* stacked inside its border and padding
TaffyPlace(taffy, node, x, y, avail) ==
    IF taffy[node].style.display = "None" THEN TaffyHide(taffy, node)
    ELSE TaffyPlaced(
             TaffyPlaceChildren(taffy, taffy[node].children,
                                InsetLeft(taffy[node].style),
                                InsetTop(taffy[node].style),
                                InnerWidth(taffy[node].style, avail)),
             node, x, y, avail)

\* the offset below a placed child
BelowChild(taffy, child) ==
    taffy[child].layout.location.y + taffy[child].layout.size.height
        + taffy[child].layout.margin.bottom

TaffyNextChild(taffy, child, rest, x, y, avail) ==
    TaffyPlaceChildren(taffy, rest, x,
                       IF taffy[child].style.display = "None" THEN y
                       ELSE BelowChild(taffy, child),
                       avail)

TaffyPlaceChildren(taffy, children, x, y, avail) ==
    IF children = <<>> THEN [taffy |-> taffy, y |-> y]
    ELSE TaffyNextChild(
             TaffyPlace(taffy, Head(children),
                        x + taffy[Head(children)].style.margin.left.v,
                        y + taffy[Head(children)].style.margin.top.v, avail),
             Head(children), Tail(children), x, y, avail)

\* Taffy::compute_layout(node, available_space): node is laid out as the
\* root of its subtree
TaffyComputeLayout(taffy, node, available_space) ==
    TaffyPlace(taffy, node, 0, 0, available_space.width)

----------------------------------------------------------------------------
(* layout.rs: LayoutEngine *)

ViewportWidth == 1920
ViewportHeight == 1080

\* Size::new(1920.0, 1080.0)
AvailableSpace == [width |-> F(ViewportWidth), height |-> F(ViewportHeight)]

\* core.rs Rect::new
Rect(x, y, width, height) ==
    [origin |-> [x |-> x, y |-> y], size |-> [width |-> width, height |-> height]]

\* LayoutEngine::new
LayoutEngineNew ==
    [taffy |-> <<>>, element_to_node |-> EmptyMap,
     node_to_element |-> EmptyMap, layout_cache |-> EmptyMap]

\* the sides handed over in the order BoxValues::new takes them
BoxValuesToTaffyRectInOrder(box_values) ==
    TaffyRect(Length(box_values.top), Length(box_values.right),
              Length(box_values.bottom), Length(box_values.left))

\* LayoutEngine::box_values_to_taffy_rect
BoxValuesToTaffyRect(box_values) ==
    TaffyRect(Length(box_values.left), Length(box_values.right),
              Length(box_values.top), Length(box_values.bottom))

\* LayoutEngine::css_to_taffy_style
CssToTaffyStyle(computed_style) ==
    [display |->
         CASE computed_style.display = "Block" -> "Block"
           [] computed_style.display = "Flex" -> "Flex"
           [] computed_style.display = "Grid" -> "Grid"
           [] computed_style.display = "None" -> "None"
           [] OTHER -> "Block",
     position |->
         CASE computed_style.position = "Static" -> "Static"
           [] computed_style.position = "Relative" -> "Relative"
           [] computed_style.position = "Absolute" -> "Absolute"
           [] computed_style.position = "Fixed" -> "Absolute"
           [] OTHER -> "Relative",
     size |->
         [width |-> IF computed_style.width.some
                    THEN Length(computed_style.width.v) ELSE Auto,
          height |-> IF computed_style.height.some
                     THEN Length(computed_style.height.v) ELSE Auto],
     margin |-> BoxValuesToTaffyRect(computed_style.margin),
     padding |-> BoxValuesToTaffyRect(computed_style.padding),
     border |-> BoxValuesToTaffyRect(computed_style.border_width),
     flex_direction |-> "Row",
     flex_wrap |-> "NoWrap",
     align_items |->
         IF computed_style.display = "Flex" THEN Some("Stretch") ELSE None,
     justify_content |->
         IF computed_style.display = "Flex" THEN Some("FlexStart") ELSE None]

\* clear_layout leaving the engine as it is
KeepLayout(eng) == eng

\* LayoutEngine::clear_layout
ClearLayout(eng) ==
    [eng EXCEPT !.taffy = <<>>, !.element_to_node = EmptyMap,
                !.node_to_element = EmptyMap, !.layout_cache = EmptyMap]

RECURSIVE CreateLayoutNode(_, _, _, _)
RECURSIVE CreateChildNodes(_, _, _, _, _)

\* create_layout_node, "Create Taffy node" and "Store mappings"
StoreNode(eng, el, taffy_style, child_nodes) ==
    [engine |->
         [eng EXCEPT
             !.taffy = TaffyNewWithChildren(@, taffy_style, child_nodes),
             !.element_to_node = MapInsert(@, el.id, Len(eng.taffy) + 1),
             !.node_to_element = MapInsert(@, Len(eng.taffy) + 1, el.id)],
     node |-> Len(eng.taffy) + 1]

CreateNodeOver(r, el, taffy_style) ==
    StoreNode(r.engine, el, taffy_style, r.child_nodes)

\* LayoutEngine::create_layout_node
CreateLayoutNode(eng, el, doc, stylesheets) ==
    CreateNodeOver(
        CreateChildNodes(eng, el.children, doc, stylesheets, <<>>),
        el, CssToTaffyStyle(ComputeStyle(el, stylesheets)))

PushChildNode(r, rest, doc, stylesheets, child_nodes) ==
    CreateChildNodes(r.engine, rest, doc, stylesheets,
                     Append(child_nodes, r.node))

\* create_layout_node, "Create child nodes"
CreateChildNodes(eng, children, doc, stylesheets, child_nodes) ==
    IF children = <<>> THEN [engine |-> eng, child_nodes |-> child_nodes]
    ELSE IF Head(children) \in DOMAIN doc.elements
    THEN PushChildNode(
             CreateLayoutNode(eng, doc.elements[Head(children)],
                              doc, stylesheets),
             Tail(children), doc, stylesheets, child_nodes)
    ELSE CreateChildNodes(eng, Tail(children), doc, stylesheets,
                          child_nodes)

\* LayoutEngine::create_layout_tree
CreateLayoutTree(eng, doc, stylesheets) ==
    CreateLayoutNode(eng, doc.root, doc, stylesheets)

\* a LayoutBox whose margin_rect leaves out the right margin
BoxWithoutRightMargin(element_id, layout) ==
    [element_id |-> element_id,
     content_rect |->
         Rect(layout.location.x, layout.location.y,
              layout.size.width, layout.size.height),
     padding_rect |->
         Rect(layout.location.x - layout.padding.left,
              layout.location.y - layout.padding.top,
              layout.size.width + layout.padding.left + layout.padding.right,
              layout.size.height + layout.padding.top + layout.padding.bottom),
     border_rect |->
         Rect(layout.location.x - layout.padding.left - layout.border.left,
              layout.location.y - layout.padding.top - layout.border.top,
              layout.size.width + layout.padding.left + layout.padding.right
                  + layout.border.left + layout.border.right,
              layout.size.height + layout.padding.top + layout.padding.bottom
                  + layout.border.top + layout.border.bottom),
     margin_rect |->
         Rect(layout.location.x - layout.padding.left - layout.border.left
                  - layout.margin.left,
              layout.location.y - layout.padding.top - layout.border.top
                  - layout.margin.top,
              layout.size.width + layout.padding.left + layout.padding.right
                  + layout.border.left + layout.border.right
                  + layout.margin.left,
              layout.size.height + layout.padding.top + layout.padding.bottom
                  + layout.border.top + layout.border.bottom
                  + layout.margin.top + layout.margin.bottom),
     baseline |-> layout.location.y + layout.size.height]

\* extract_layout_recursive, "Convert to our layout box format"
ExtractedBox(element_id, layout) ==
    [element_id |-> element_id,
     content_rect |->
         Rect(layout.location.x, layout.location.y,
              layout.size.width, layout.size.height),
     padding_rect |->
         Rect(layout.location.x - layout.padding.left,
              layout.location.y - layout.padding.top,
              layout.size.width + layout.padding.left + layout.padding.right,
              layout.size.height + layout.padding.top + layout.padding.bottom),
     border_rect |->
         Rect(layout.location.x - layout.padding.left - layout.border.left,
              layout.location.y - layout.padding.top - layout.border.top,
              layout.size.width + layout.padding.left + layout.padding.right
                  + layout.border.left + layout.border.right,
              layout.size.height + layout.padding.top + layout.padding.bottom
                  + layout.border.top + layout.border.bottom),
     margin_rect |->
         Rect(layout.location.x - layout.padding.left - layout.border.left
                  - layout.margin.left,
              layout.location.y - layout.padding.top - layout.border.top
                  - layout.margin.top,
              layout.size.width + layout.padding.left + layout.padding.right
                  + layout.border.left + layout.border.right
                  + layout.margin.left + layout.margin.right,
              layout.size.height + layout.padding.top + layout.padding.bottom
                  + layout.border.top + layout.border.bottom
                  + layout.margin.top + layout.margin.bottom),
     baseline |-> layout.location.y + layout.size.height]

RECURSIVE ExtractLayoutRecursive(_, _, _)
RECURSIVE ExtractChildren(_, _)

\* extract_layout_recursive, the two inserts
StoreBox(eng, layout_boxes, layout_box) ==
    [engine |->
         [eng EXCEPT !.layout_cache =
                         MapInsert(@, layout_box.element_id, layout_box)],
     layout_boxes |->
         MapInsert(layout_boxes, layout_box.element_id, layout_box)]

\* LayoutEngine::extract_layout_recursive
ExtractLayoutRecursive(eng, node, layout_boxes) ==
    ExtractChildren(
        StoreBox(eng, layout_boxes,
                 ExtractedBox(eng.node_to_element[node], eng.taffy[node].layout)),
        eng.taffy[node].children)

\* extract_layout_recursive, "Process children"
ExtractChildren(r, children) ==
    IF children = <<>> THEN r
    ELSE ExtractChildren(
             ExtractLayoutRecursive(r.engine, Head(children), r.layout_boxes),
             Tail(children))

LayoutTree(root_element_id, layout_boxes) ==
    [root_element_id |-> root_element_id, layout_boxes |-> layout_boxes]

ExtractedTree(r, root_node) ==
    [engine |-> r.engine,
     result |-> [ok |-> TRUE,
                 tree |-> LayoutTree(r.engine.node_to_element[root_node],
                                     r.layout_boxes)]]

\* LayoutEngine::extract_layout_tree
ExtractLayoutTree(eng, root_node, doc) ==
    ExtractedTree(ExtractLayoutRecursive(eng, root_node, EmptyMap), root_node)

\* compute_layout, "Compute layout with available space" and "Extract
\* layout results"
ComputeAndExtract(r, doc) ==
    ExtractLayoutTree(
        [r.engine EXCEPT !.taffy = TaffyComputeLayout(@, r.node, AvailableSpace)],
        r.node, doc)

\* LayoutEngine::compute_layout: the engine after the call, and the result
ComputeLayout(eng, doc, stylesheets) ==
    ComputeAndExtract(CreateLayoutTree(ClearLayout(eng), doc, stylesheets),
                      doc)

\* The taffy calls of compute_layout return Results, which the code maps to
\* EngineError::RenderingError and propagates with `?`.  A Failure names the
\* call that returns Err: the n-th new_with_children of tree building, the
\* compute_layout call, or the taffy call of box extraction (layout and
\* children, in the order made) that follows n successful ones.
Failure(step, n) == [step |-> step, n |-> n]

LayoutError ==
    [ok |-> FALSE, error |-> "RenderingError"]

\* create_layout_node failing at its n-th new_with_children: nodes are
\* appended and mapped one by one, so the n - 1 created before are held
BuildFailed(built, n) ==
    [built EXCEPT
        !.taffy = SubSeq(@, 1, n - 1),
        !.element_to_node =
            [id \in {e \in DOMAIN @ : @[e] < n} |-> @[id]],
        !.node_to_element = [k \in 1..(n - 1) |-> @[k]]]

RECURSIVE ExtractFailing(_, _)
RECURSIVE ExtractChildrenFailing(_, _)

\* extract_layout_recursive after taffy.layout(node) returned Ok: the two
\* inserts, then taffy.children(node)? and "Process children"
ExtractStored(r, left, node) ==
    IF left = 0
    THEN [engine |-> r.engine, layout_boxes |-> r.layout_boxes,
          left |-> 0, ok |-> FALSE]
    ELSE ExtractChildrenFailing(
             [engine |-> r.engine, layout_boxes |-> r.layout_boxes,
              left |-> left - 1, ok |-> TRUE],
             r.engine.taffy[node].children)

\* extract_layout_recursive with r.left taffy calls still to succeed
ExtractFailing(r, node) ==
    IF r.left = 0 THEN [r EXCEPT !.ok = FALSE]
    ELSE ExtractStored(
             StoreBox(r.engine, r.layout_boxes,
                      ExtractedBox(r.engine.node_to_element[node],
                                   r.engine.taffy[node].layout)),
             r.left - 1, node)

\* for child_node in children { self.extract_layout_recursive(..)?; }
ExtractChildrenFailing(r, children) ==
    IF ~r.ok \/ children = <<>> THEN r
    ELSE ExtractChildrenFailing(ExtractFailing(r, Head(children)),
                                Tail(children))

\* compute_layout from "Compute layout with available space" on, over the
\* tree built
ComputeFailing(r, failure) ==
    IF failure.step = "compute_layout" THEN r.engine
    ELSE ExtractFailing(
             [engine |-> [r.engine EXCEPT
                             !.taffy = TaffyComputeLayout(@, r.node,
                                                          AvailableSpace)],
              layout_boxes |-> EmptyMap, left |-> failure.n, ok |-> TRUE],
             r.node).engine

\* LayoutEngine::compute_layout when a taffy call fails: the engine after
\* the call
ComputeLayoutFailing(eng, doc, stylesheets, failure) ==
    IF failure.step = "new_with_children"
    THEN BuildFailed(CreateLayoutTree(ClearLayout(eng), doc,
                                      stylesheets).engine, failure.n)
    ELSE ComputeFailing(CreateLayoutTree(ClearLayout(eng), doc, stylesheets),
                        failure)

\* update_layout_cache, the LayoutBox it builds
CachedBox(element_id, layout) ==
    [element_id |-> element_id,
     content_rect |->
         Rect(layout.location.x, layout.location.y,
              layout.size.width, layout.size.height),
     padding_rect |->
         Rect(layout.location.x - layout.padding.left,
              layout.location.y - layout.padding.top,
              layout.size.width + layout.padding.left + layout.padding.right,
              layout.size.height + layout.padding.top + layout.padding.bottom),
     border_rect |->
         Rect(layout.location.x - layout.padding.left - layout.border.left,
              layout.location.y - layout.padding.top - layout.border.top,
              layout.size.width + layout.padding.left + layout.padding.right
                  + layout.border.left + layout.border.right,
              layout.size.height + layout.padding.top + layout.padding.bottom
                  + layout.border.top + layout.border.bottom),
     margin_rect |->
         Rect(layout.location.x - layout.padding.left - layout.border.left
                  - layout.margin.left,
              layout.location.y - layout.padding.top - layout.border.top
                  - layout.margin.top,
              layout.size.width + layout.padding.left + layout.padding.right
                  + layout.border.left + layout.border.right
                  + layout.margin.left + layout.margin.right,
              layout.size.height + layout.padding.top + layout.padding.bottom
                  + layout.border.top + layout.border.bottom
                  + layout.margin.top + layout.margin.bottom),
     baseline |-> layout.location.y + layout.size.height]

RECURSIVE UpdateLayoutCache(_, _)
RECURSIVE UpdateChildren(_, _)

\* LayoutEngine::update_layout_cache
UpdateLayoutCache(eng, node) ==
    UpdateChildren(
        [eng EXCEPT !.layout_cache =
            MapInsert(@, eng.node_to_element[node],
                      CachedBox(eng.node_to_element[node],
                                eng.taffy[node].layout))],
        eng.taffy[node].children)

\* update_layout_cache, "Update children"
UpdateChildren(eng, children) ==
    IF children = <<>> THEN eng
    ELSE UpdateChildren(UpdateLayoutCache(eng, Head(children)), Tail(children))

\* update_element_layout recomputing from the root of the whole tree, the
\* node created last
UpdateFromRoot(eng, node, taffy_style) ==
    UpdateLayoutCache(
        [eng EXCEPT !.taffy = TaffyComputeLayout(
                                  TaffySetStyle(@, node, taffy_style),
                                  Len(eng.taffy), AvailableSpace)],
        Len(eng.taffy))

\* update_element_layout, for an el that has a node
UpdateNode(eng, node, taffy_style) ==
    UpdateLayoutCache(
        [eng EXCEPT !.taffy = TaffyComputeLayout(
                                  TaffySetStyle(@, node, taffy_style),
                                  node, AvailableSpace)],
        node)

\* update_element_layout with the `if let Some(&node)` test left out: an
\* element without a node is taken for the root's
UpdateElementLayoutAnyway(eng, element_id, new_style) ==
    IF eng.taffy = <<>> THEN eng
    ELSE UpdateNode(eng,
                    IF element_id \in DOMAIN eng.element_to_node
                    THEN eng.element_to_node[element_id] ELSE Len(eng.taffy),
                    CssToTaffyStyle(new_style))

\* LayoutEngine::update_element_layout: the engine after the call
UpdateElementLayout(eng, element_id, new_style) ==
    IF element_id \in DOMAIN eng.element_to_node
    THEN UpdateNode(eng, eng.element_to_node[element_id],
                    CssToTaffyStyle(new_style))
    ELSE eng

\* update_element_layout returning Err: taffy.set_style failed, which
\* leaves the engine as it was, or taffy.compute_layout failed after the
\* style was set.  Both calls are made for an element that has a node only.
UpdateElementLayoutFailing(eng, element_id, new_style) ==
    IF element_id \in DOMAIN eng.element_to_node
    THEN {eng,
          [eng EXCEPT !.taffy =
                          TaffySetStyle(@, eng.element_to_node[element_id],
                                        CssToTaffyStyle(new_style))]}
    ELSE {}

\* core.rs Point::new
Point(x, y) == [x |-> x, y |-> y]

\* Rect::contains_point with the edges left out
ContainsPointInside(rect, point) ==
    /\ point.x > rect.origin.x
    /\ point.x < rect.origin.x + rect.size.width
    /\ point.y > rect.origin.y
    /\ point.y < rect.origin.y + rect.size.height

\* core.rs Rect::contains_point
ContainsPoint(rect, point) ==
    /\ point.x >= rect.origin.x
    /\ point.x <= rect.origin.x + rect.size.width
    /\ point.y >= rect.origin.y
    /\ point.y <= rect.origin.y + rect.size.height

\* the orders in which a HashMap with these keys may be iterated
IterationOrders(keys) ==
    {order \in [1..Cardinality(keys) -> keys] :
        \A i, j \in DOMAIN order : order[i] = order[j] => i = j}

RECURSIVE FirstHit(_, _, _)
\* for (element_id, layout_box) in boxes: the first whose border_rect
\* contains the point, the entries coming in the given order
FirstHit(boxes, order, point) ==
    IF order = <<>> THEN None
    ELSE IF ContainsPoint(boxes[Head(order)].border_rect, point)
    THEN Some(Head(order))
    ELSE FirstHit(boxes, Tail(order), point)

\* LayoutEngine::hit_test
HitTest(eng, order, point) == FirstHit(eng.layout_cache, order, point)

\* LayoutTree::element_at_point
ElementAtPoint(tree, order, point) == FirstHit(tree.layout_boxes, order, point)

----------------------------------------------------------------------------
(* lib.rs: TitanEngine::load_page *)

\* ElementId::new draws a fresh Uuid: the ids of two Documents never
\* coincide.  The ids from_rcdom counts from 1 are moved by a base that
\* differs from page to page.
RekeyElement(el, base) ==
    [el EXCEPT !.id = @ + base,
               !.children = [i \in DOMAIN el.children |-> el.children[i] + base],
               !.parent = IF el.parent.some THEN Some(el.parent.v + base)
                          ELSE None]

RekeyOption(o, base) ==
    IF o.some THEN Some(RekeyElement(o.v, base)) ELSE None

Rekeyed(doc, base) ==
    [doc EXCEPT
        !.root = RekeyElement(doc.root, base),
        !.head = RekeyOption(doc.head, base),
        !.body = RekeyOption(doc.body, base),
        !.elements = [id \in {k + base : k \in DOMAIN doc.elements} |->
                         RekeyElement(doc.elements[id - base], base)]]

\* HTMLParser::parse of a response body html5ever made this tree of
HtmlParse(dom, base) == Rekeyed(FromRcdom(dom), base)

RECURSIVE StyleElementSheets(_, _)
\* parse_stylesheets, "Parse <style> elements": a sheet for each style
\* element with text
StyleElementSheets(doc, ids) ==
    IF ids = {} THEN <<>>
    ELSE LET id == CHOOSE i \in ids : \A j \in ids : i <= j
         IN (IF /\ EqIgnoreAsciiCase(doc.elements[id].tag_name, "style")
                /\ TextContent(doc.elements[id]) # ""
             THEN <<ParseStylesheet(TextContent(doc.elements[id]), "Author")>>
             ELSE <<>>)
            \o StyleElementSheets(doc, ids \ {id})

\* CSSEngine::parse_stylesheets
ParseStylesheets(doc) ==
    <<DefaultUserAgent>> \o StyleElementSheets(doc, DOMAIN doc.elements)

RECURSIVE CreateLayoutNodeCalls(_, _)
RECURSIVE CreateChildNodesCalls(_, _)

\* the calls create_layout_node makes for an el, in the order made
CreateLayoutNodeCalls(el, doc) ==
    <<"compute_style">> \o CreateChildNodesCalls(el.children, doc)
        \o <<"taffy.new_with_children">>

CreateChildNodesCalls(children, doc) ==
    IF children = <<>> THEN <<>>
    ELSE (IF Head(children) \in DOMAIN doc.elements
          THEN CreateLayoutNodeCalls(doc.elements[Head(children)], doc)
          ELSE <<>>)
         \o CreateChildNodesCalls(Tail(children), doc)

\* compute_layout with every compute_style left to box extraction
ComputeLayoutCallsStyleLast(doc) ==
    <<"clear_layout", "taffy.new_with_children", "taffy.compute_layout",
      "compute_style", "extract_layout_tree">>

\* the calls compute_layout makes, in the order made
ComputeLayoutCalls(doc) ==
    <<"clear_layout">> \o CreateLayoutNodeCalls(doc.root, doc)
        \o <<"taffy.compute_layout", "extract_layout_tree">>

\* LayoutEngine::get_layout_box
GetLayoutBox(eng, element_id) ==
    IF element_id \in DOMAIN eng.layout_cache
    THEN Some(eng.layout_cache[element_id])
    ELSE None

----------------------------------------------------------------------------
(* Inputs *)

MaxRules == 2        \* rules of one stylesheet
MaxDecls == 2        \* declarations of one block or style attribute
MaxSheets == 2       \* stylesheets handed to compute_style

\* the sequences of 1..n elements of S
SeqsUpTo(S, n) == UNION {[1..k -> S] : k \in 1..n}

\* those that name no element twice
DistinctSeqsUpTo(S, n) ==
    {q \in SeqsUpTo(S, n) : \A i, j \in DOMAIN q : i # j => q[i] # q[j]}

\* a declaration as written: its property, the text of its value, and the
\* tokens of that text
Written(property, value, toks) ==
    [property |-> property, value |-> value, toks |-> toks]

\* the Declaration a written declaration stands for
Declared(w) == Declaration(w.property, w.value)

Decls(ws) == [i \in DOMAIN ws |-> Declared(ws[i])]

\* `property: value;`
DeclToks(w) == <<TIdent(w.property), TColon>> \o w.toks \o <<TSemi>>

RECURSIVE DeclsToks(_)
DeclsToks(ws) ==
    IF ws = <<>> THEN <<>> ELSE DeclToks(Head(ws)) \o DeclsToks(Tail(ws))

\* `selector { declarations }`, as in tests::test_simple_css_parsing
RuleToks(selToks, ws) == selToks \o <<TOpen>> \o DeclsToks(ws) \o <<TClose>>

CssDeclPool ==
    {Written("color", "red", <<TIdent("red")>>),
     Written("margin", "10px 20px", <<TDim("10px"), TDim("20px")>>)}

CssSelectorPool ==
    {[text |-> "body", toks |-> <<TIdent("body")>>],
     [text |-> ".highlight", toks |-> <<TDot, TIdent("highlight")>>]}

\* a well-formed rule, and a rule that has no block: `body color: red;`
WellFormedRules ==
    {[good |-> TRUE, selector |-> sel.text, declarations |-> Decls(ws),
      toks |-> RuleToks(sel.toks, ws), declToks |-> DeclsToks(ws)] :
        sel \in CssSelectorPool, ws \in SeqsUpTo(CssDeclPool, MaxDecls)}
MalformedRule ==
    [good |-> FALSE, selector |-> "", declarations |-> <<>>,
     toks |-> <<TIdent("body"), TIdent("color"), TColon, TIdent("red"), TSemi>>,
     declToks |-> <<>>]

CssInputs == SeqsUpTo(WellFormedRules \cup {MalformedRule}, MaxRules)

\* the text of a stylesheet: its rules one after the other
RECURSIVE SheetToks(_)
SheetToks(input) ==
    IF input = <<>> THEN <<>> ELSE Head(input).toks \o SheetToks(Tail(input))

\* Element::new, with the attributes set
MkElement(id, tag_name, attributes) ==
    [ElementNew(tag_name, id) EXCEPT !.attributes = attributes]

\* the style attributes of the inputs, as written
InlinePool ==
    {<<>>,
     <<Written("color", "blue", <<TIdent("blue")>>)>>,
     <<Written("color", "blue", <<TIdent("blue")>>),
       Written("margin", "4px", <<TDim("4px")>>)>>}

ClassPool == {"", "note hl"}

\* the attribute map: the text of a style attribute is held as its tokens
Attrs(class, inline) ==
    [k \in (IF class = "" THEN {} ELSE {"class"})
           \cup (IF inline = <<>> THEN {} ELSE {"style"}) |->
        IF k = "class" THEN class ELSE DeclsToks(inline)]

ElementPool ==
    {MkElement(1, tag, Attrs(class, inline)) :
        tag \in {"body", "H1"}, class \in ClassPool, inline \in InlinePool}

AuthorRulePool ==
    {StyleRule(<<"body">>, <<Declaration("color", "red")>>),
     StyleRule(<<"h1">>, <<Declaration("color", "yellow"),
                           Declaration("margin", "0")>>),
     StyleRule(<<".hl">>, <<Declaration("color", "green"),
                            Declaration("margin", "2px 6px")>>)}

AuthorSheets ==
    {Stylesheet(rules, "Author") :
        rules \in DistinctSeqsUpTo(AuthorRulePool, MaxRules)}

SheetLists ==
    {<<>>} \cup SeqsUpTo(AuthorSheets \cup {DefaultUserAgent}, MaxSheets)

MaxChildren == 2     \* element children of body

\* what markup can put under body
BodyChildPool ==
    {RcText("Hi"),
     RcElement("p", <<Attr("class", "note hl")>>, <<RcText("a")>>),
     RcElement("div", <<Attr("id", "main")>>,
               <<RcElement("span", <<>>, <<>>), RcComment>>),
     RcElement("h1", <<>>, <<RcText("Hi")>>),
     RcElement("svg", <<>>, <<RcElement("html", <<>>, <<>>)>>)}

HeadPool ==
    {<<>>, <<RcElement("title", <<>>, <<RcText("T")>>)>>}

\* html5ever's tree of a page: an optional doctype, then html with head and
\* body
RcDomOf(doctype, head, body) ==
    RcDocument(doctype \o
               <<RcElement("html", <<>>,
                           <<RcElement("head", <<>>, head),
                             RcElement("body", <<>>, body)>>)>>)

RcDomPool ==
    {RcDomOf(doctype, head, body) :
        doctype \in {<<>>, <<RcDoctype("html")>>},
        head \in HeadPool,
        body \in {<<>>} \cup SeqsUpTo(BodyChildPool, MaxChildren)}

\* the arguments the queries of a Document are made with
TagQueryPool == {"html", "H1", "p", "table"}
ClassQueryPool == {"note", "hl", "no"}
IdQueryPool == {"main", "nope"}

\* selectors as written, with what each one designates
SelectorPool ==
    {[text |-> "H1", toks |-> <<TIdent("H1")>>, kind |-> "tag", name |-> "H1"],
     [text |-> "p", toks |-> <<TIdent("p")>>, kind |-> "tag", name |-> "p"],
     [text |-> "#main", toks |-> <<THash("main")>>, kind |-> "id",
      name |-> "main"],
     [text |-> ".hl", toks |-> <<TDot, TIdent("hl")>>, kind |-> "class",
      name |-> "hl"],
     [text |-> ".not", toks |-> <<TDot, TIdent("not")>>, kind |-> "class",
      name |-> "not"]}

\* the elements the selectors are matched against
SelectorElementPool ==
    {MkElement(1, tag, attributes) :
        tag \in {"h1", "P", "div"},
        attributes \in {EmptyMap, "id" :> "main", "class" :> "note hl",
                        ("id" :> "Main") @@ ("class" :> "hl")}}

\* the selector part of a rule: selectors separated by commas
RECURSIVE SelectorListToks(_)
SelectorListToks(selectors) ==
    IF Len(selectors) = 1 THEN selectors[1].toks
    ELSE selectors[1].toks \o <<TComma>> \o SelectorListToks(Tail(selectors))

SelectorLists ==
    {<<a>> : a \in SelectorPool} \cup
    {<<a, b>> : a \in {x \in SelectorPool : x.kind = "tag"},
                b \in {x \in SelectorPool : x.kind # "tag"}}

\* `selectors { color: red; }`, and the same with a second block, the form
\* parse_rule makes a rule of
SelectorRules ==
    {[selectors |-> l,
      toks |-> SelectorListToks(l)
               \o <<TOpen, TIdent("color"), TColon, TIdent("red"), TSemi, TClose>>
               \o blocks] :
        l \in SelectorLists,
        blocks \in {<<>>, <<TOpen, TIdent("color"), TColon, TIdent("red"),
                            TSemi, TClose>>}}

\* number literals, with the number each one writes (times Scale)
NumberPool ==
    {[text |-> "0", n |-> 0], [text |-> "2", n |-> F(2)],
     [text |-> "16", n |-> F(16)], [text |-> "1.5", n |-> 150],
     [text |-> "0.67", n |-> 67], [text |-> "-4", n |-> 0 - F(4)]}

UnitPool == {"px", "em", "rem", "%", ""}

\* the texts parse_length is called with: `<n><unit>`, and other text
LengthPool ==
    {[text |-> num.text \o unit, n |-> num.n, unit |-> unit] :
        num \in NumberPool, unit \in UnitPool}
    \cup {[text |-> t, n |-> 0, unit |-> "none"] : t \in {"auto", "thick", ""}}

MaxBoxValues == 5    \* space-separated values of one box shorthand

\* the lengths a box shorthand is written with
BoxLengthPool ==
    {l \in LengthPool : l.text \in {"10px", "2px", "1.5em", "2rem", "16"}}
    \cup {[text |-> "10px", n |-> F(10), unit |-> "px"]}

BoxValueLists ==
    {<<>>} \cup {l \in SeqsUpTo(BoxLengthPool, MaxBoxValues) :
                     \A i \in DOMAIN l : i > 2 => l[i].unit \in {"px", "rem"}}

\* the values of a declaration, separated by spaces
RECURSIVE Joined(_)
Joined(lengths) ==
    IF lengths = <<>> THEN ""
    ELSE IF Len(lengths) = 1 THEN lengths[1].text
    ELSE lengths[1].text \o " " \o Joined(Tail(lengths))

\* the ComputedStyles css_to_taffy_style is called with: every display and
\* position, width and height set or not, the box sides zero or all unlike
ConvertedStylePool ==
    {[DefaultStyle EXCEPT
          !.display = d, !.position = pos, !.width = w, !.height = h,
          !.margin = IF sides THEN BoxValues(F(1), F(2), F(3), F(4)) ELSE BoxZero,
          !.padding = IF sides THEN BoxValues(F(5), F(6), F(7), F(8)) ELSE BoxZero,
          !.border_width =
              IF sides THEN BoxValues(F(9), F(10), F(11), F(12)) ELSE BoxZero] :
        d \in {"Block", "Inline", "InlineBlock", "Flex", "Grid", "None"},
        pos \in {"Static", "Relative", "Absolute", "Fixed", "Sticky"},
        w \in {None, Some(F(100))}, h \in {None, Some(F(200))},
        sides \in BOOLEAN}

MaxStyleCalls == 3   \* compute_style calls of one run

\* the elements and stylesheet lists repeated compute_style calls are made
\* with
PureElementPool ==
    {MkElement(1, tag, attributes) :
        tag \in {"body", "H1"},
        attributes \in {EmptyMap,
                        Attrs("note hl", <<Written("color", "blue",
                                                   <<TIdent("blue")>>)>>)}}

PureSheetLists ==
    {<<Stylesheet(<<StyleRule(<<"body">>, <<Declaration("color", "red")>>)>>,
                  "Author")>>,
     <<DefaultUserAgent,
       Stylesheet(<<StyleRule(<<"h1">>, <<Declaration("color", "yellow"),
                                          Declaration("margin", "0")>>),
                    StyleRule(<<".hl">>, <<Declaration("margin", "2px 6px")>>)>>,
                  "Author")>>,
     <<Stylesheet(<<StyleRule(<<".hl">>, <<Declaration("width", "100px")>>)>>,
                  "Author"),
       DefaultUserAgent>>}

MaxAttrOps == 3      \* set_attribute and remove_attribute calls on one Element

\* the names and values the attribute calls are made with
AttrNamePool == {"id", "class", "href"}
AttrValuePool == {"a", "b"}

MaxLayoutCalls == 2  \* calls made on one LayoutEngine

\* the pages laid out: no doctype, an empty head, at most one node in body
PagePool ==
    {RcDomOf(<<>>, <<>>, body) :
        body \in {<<>>} \cup SeqsUpTo(BodyChildPool, 1)}

\* a Document whose elements carry their children and parent, as a caller
\* sets them through the pub fields: html > body > children
Linked(el, parent, children) ==
    [el EXCEPT !.parent = parent, !.children = children]

LinkedDocument(bodyChildren) ==
    [DocumentNew("about:linked") EXCEPT
        !.root = Linked(ElementNew("html", 1), None, <<2>>),
        !.body = Some(Linked(ElementNew("body", 2), Some(1),
                             [i \in DOMAIN bodyChildren |-> 2 + i])),
        !.elements =
            [id \in 1..(2 + Len(bodyChildren)) |->
                IF id = 1 THEN Linked(ElementNew("html", 1), None, <<2>>)
                ELSE IF id = 2
                THEN Linked(ElementNew("body", 2), Some(1),
                            [i \in DOMAIN bodyChildren |-> 2 + i])
                ELSE Linked(bodyChildren[id - 2], Some(2), <<>>)]]

LinkedPool ==
    {LinkedDocument(<<MkElement(3, "h1", EmptyMap)>>),
     LinkedDocument(<<MkElement(3, "p", Attrs("note hl", <<>>)),
                      MkElement(4, "h1", EmptyMap)>>)}

LayoutDocPool == {FromRcdom(dom) : dom \in PagePool} \cup LinkedPool

LayoutRulePool ==
    {StyleRule(<<"html">>, <<Declaration("margin", "10px 20px"),
                             Declaration("padding", "4px"),
                             Declaration("border-width", "1px"),
                             Declaration("width", "300px")>>),
     StyleRule(<<"html">>, <<Declaration("margin", "-5px")>>),
     StyleRule(<<"h1">>, <<Declaration("margin", "-5px"),
                           Declaration("height", "40px")>>),
     StyleRule(<<".hl">>, <<Declaration("padding", "-4px 2px"),
                            Declaration("border-width", "3px")>>)}

LayoutSheetLists ==
    {<<>>, <<DefaultUserAgent>>} \cup
    {<<DefaultUserAgent, Stylesheet(rules, "Author")>> :
        rules \in {<<r>> : r \in LayoutRulePool}
                  \cup {<<r1, r2>> : r1, r2 \in LayoutRulePool}}

\* the styles handed to update_element_layout
NewStylePool ==
    {[DefaultStyle EXCEPT !.padding = BoxAll(F(3)),
                          !.margin = BoxValues(F(1), F(2), F(3), F(4))],
     [DefaultStyle EXCEPT !.width = Some(F(100)),
                          !.border_width = BoxAll(F(2)),
                          !.margin = BoxAll(F(0 - 6))]}

\* the declarations a style attribute was written from
InlineDeclsOf(el) ==
    IF "style" \in DOMAIN el.attributes
    THEN Decls(CHOOSE ws \in InlinePool : DeclsToks(ws) = el.attributes["style"])
    ELSE <<>>

\* the declarations apply_declaration is called with: for each property it
\* recognizes one value its parser accepts and one it rejects, and one
\* property it does not recognize
MaxApplied == 2
ParseablePool ==
    {Declaration("color", "red"),
     Declaration("background-color", "blue"),
     Declaration("font-size", "20px"),
     Declaration("font-weight", "bold"),
     Declaration("display", "flex"),
     Declaration("position", "absolute"),
     Declaration("width", "100px"),
     Declaration("height", "50px"),
     Declaration("margin", "10px 20px"),
     Declaration("padding", "4px"),
     Declaration("border-width", "1px")}
Recognized == {d.property : d \in ParseablePool}
UnparseablePool ==
    {Declaration(P, IF P \in {"color", "background-color"}
                    THEN "not-a-color" ELSE "bogus") : P \in Recognized}
\* the names apply_declaration has an arm for
RecognizedNames == Recognized \cup {"font-family"}
\* declarations of names it has no arm for; a property name is compared as
\* written
CustomPool ==
    {Declaration("--accent", "bogus"), Declaration("--accent", "teal"),
     Declaration("Color", "red")}
ApplyDeclPool ==
    ParseablePool \cup UnparseablePool \cup CustomPool
        \cup {Declaration("font-family", "Arial")}

RECURSIVE SubtreeOf(_, _)
\* the element and the elements below it
SubtreeOf(doc, id) ==
    {id} \cup UNION {SubtreeOf(doc, doc.elements[id].children[i]) :
                        i \in DOMAIN doc.elements[id].children}

\* the taffy calls of a compute_layout on doc that can return Err
Failures(doc) ==
    {Failure("new_with_children", n) :
        n \in 1..Cardinality(SubtreeOf(doc, doc.root.id))}
    \cup {Failure("compute_layout", 0)}
    \cup {Failure("extraction", n) :
             n \in 0..(2 * Cardinality(SubtreeOf(doc, doc.root.id)) - 1)}

\* the box tests::test_hit_testing inserts into layout_cache
TestBox ==
    [element_id |-> 1,
     content_rect |-> Rect(F(10), F(10), F(100), F(50)),
     padding_rect |-> Rect(F(5), F(5), F(110), F(60)),
     border_rect |-> Rect(0, 0, F(120), F(70)),
     margin_rect |-> Rect(F(0 - 10), F(0 - 10), F(140), F(90)),
     baseline |-> F(60)]

\* the engines hit tests start from: a new one, and the test's
HitEnginePool ==
    {LayoutEngineNew,
     [LayoutEngineNew EXCEPT !.layout_cache = 1 :> TestBox]}

\* the points asked for: the two of the test, points on an edge and a
\* corner of boxes, and points inside the boxes of the documents
PointPool ==
    {Point(F(50), F(30)), Point(F(200), F(200)),
     Point(0, 0), Point(F(120), F(70)),
     Point(F(50), F(10)), Point(F(2000), F(10))}

\* the load_page calls made on one engine, and the base of the ids of each
PageIds == {"A", "B"}
PageBase(p) == IF p = "A" THEN 0 ELSE 10

\* the trees html5ever makes of the response bodies
ResponsePool ==
    {RcDomOf(<<>>, <<>>, <<>>),
     RcDomOf(<<>>, <<RcElement("style", <<>>, <<RcText("h1 {}")>>)>>,
             <<RcElement("h1", <<>>, <<RcText("Hi")>>)>>)}

----------------------------------------------------------------------------
(* State *)

NoDocument == [built |-> FALSE]
NoSheet == [called |-> FALSE]
NoDecls == [called |-> FALSE]
NoStyle == [called |-> FALSE]

CssIdle == cssInput = <<>> /\ sheet = NoSheet /\ declList = NoDecls
CascadeIdle ==
    /\ element = MkElement(1, "body", EmptyMap)
    /\ sheets = <<>>
    /\ computed = NoStyle
DomIdle == rcdom = RcDocument(<<>>) /\ document = NoDocument
NoResult == [called |-> FALSE]
NoCall == [op |-> "none"]
\* the boxes of the LayoutTree last returned
TreeBoxes == layoutResult.result.tree.layout_boxes
LayoutIdle ==
    /\ engine = LayoutEngineNew
    /\ layoutDoc = NoDocument
    /\ layoutSheets = <<>>
    /\ layoutResult = NoResult
    /\ layoutCalls = 0
    /\ layoutLast = NoCall

NotApplied == Declaration("", "")
ApplyIdle ==
    /\ applyStyle = DefaultStyle
    /\ applyDecl = NotApplied
    /\ applyCount = 0
NoHit == [called |-> FALSE]
HitIdle == hitCall = NoHit
\* a load_page call that has not started
NoTree == LayoutTree(0, EmptyMap)
NotLoaded ==
    [pc |-> "start", document |-> NoDocument, stylesheets |-> <<>>,
     layout_tree |-> NoTree, calls |-> <<>>]
PagesIdle == pages = [p \in PageIds |-> NotLoaded] /\ layoutLock = "free"
NoQuery == [fn |-> "none"]
CssEngineIds == {"e1", "e2"}
CssEnginesNew == [e \in CssEngineIds |-> CSSEngineNew]
QueryIdle == query = NoQuery /\ cssEngines = CssEnginesNew
RestIdle == ApplyIdle /\ HitIdle /\ PagesIdle /\ QueryIdle

----------------------------------------------------------------------------
(* The style text parsers on their inputs *)

InitCss ==
    /\ cssInput \in CssInputs
    /\ sheet = NoSheet
    /\ declList = NoDecls
    /\ CascadeIdle /\ DomIdle /\ LayoutIdle /\ RestIdle

\* engine.parse_stylesheet(css, StylesheetOrigin::Author)
ParseStylesheetCall ==
    /\ ~sheet.called
    /\ sheet' = [called |-> TRUE,
                 result |-> ParseStylesheet(SheetToks(cssInput), "Author")]
    /\ UNCHANGED <<cssInput, declList, cascadeVars, domVars, layoutVars,
                 restVars>>

\* engine.parse_declaration_list(style_attr), on the declarations of the
\* first rule
ParseDeclarationListCall ==
    /\ ~declList.called
    /\ declList' =
           [called |-> TRUE,
            declarations |->
                ParseDeclarationList(cssInput[1].declToks)]
    /\ UNCHANGED <<cssInput, sheet, cascadeVars, domVars, layoutVars,
                 restVars>>

NextCss == ParseStylesheetCall \/ ParseDeclarationListCall

SpecCss == InitCss /\ [][NextCss]_vars

----------------------------------------------------------------------------
(* compute_style on its inputs *)

InitCascade ==
    /\ element \in ElementPool
    /\ sheets \in SheetLists
    /\ computed = NoStyle
    /\ CssIdle /\ DomIdle /\ LayoutIdle /\ RestIdle

\* css_engine.compute_style(element, stylesheets)
ComputeStyleCall ==
    /\ ~computed.called
    /\ computed' = [called |-> TRUE, style |-> ComputeStyle(element, sheets)]
    /\ UNCHANGED <<element, sheets, cssVars, domVars, layoutVars,
                 restVars>>

NextCascade == ComputeStyleCall

SpecCascade == InitCascade /\ [][NextCascade]_vars

----------------------------------------------------------------------------
(* Document::from_rcdom on its inputs *)

InitDom ==
    /\ rcdom \in RcDomPool
    /\ document = NoDocument
    /\ CssIdle /\ CascadeIdle /\ LayoutIdle /\ RestIdle

\* HTMLParser::parse, from the RcDom on
FromRcdomCall ==
    /\ ~document.built
    /\ document' = FromRcdom(rcdom)
    /\ UNCHANGED <<rcdom, cssVars, cascadeVars, layoutVars,
                 restVars>>

\* the queries of a built Document; they take &self and return a collection
\* or an Option
GetElementsByTagNameCall ==
    /\ document.built
    /\ \E t \in TagQueryPool :
           query' = [fn |-> "get_elements_by_tag_name", arg |-> t,
                     result |-> GetElementsByTagName(document, t)]
    /\ UNCHANGED <<domVars, cssVars, cascadeVars, layoutVars, applyVars,
                   hitVars, pageVars, cssEngines>>

GetElementsByClassNameCall ==
    /\ document.built
    /\ \E c \in ClassQueryPool :
           query' = [fn |-> "get_elements_by_class_name", arg |-> c,
                     result |-> GetElementsByClassName(document, c)]
    /\ UNCHANGED <<domVars, cssVars, cascadeVars, layoutVars, applyVars,
                   hitVars, pageVars, cssEngines>>

GetElementByIdCall ==
    /\ document.built
    /\ \E v \in IdQueryPool :
           \E found \in GetElementById(document, v) :
               query' = [fn |-> "get_element_by_id", arg |-> v,
                         result |-> found]
    /\ UNCHANGED <<domVars, cssVars, cascadeVars, layoutVars, applyVars,
                   hitVars, pageVars, cssEngines>>

NextQuery ==
    \/ FromRcdomCall
    \/ GetElementsByTagNameCall
    \/ GetElementsByClassNameCall
    \/ GetElementByIdCall

SpecQuery == InitDom /\ [][NextQuery]_vars

NextDom == FromRcdomCall

SpecDom == InitDom /\ [][NextDom]_vars

----------------------------------------------------------------------------
(* The attribute calls on one Element; query.ops is the list of the calls   *)
(* made so far                                                              *)

InitAttr ==
    /\ element \in {ElementNew(tag, 1) : tag \in {"div", "a"}}
    /\ sheets = <<>>
    /\ computed = NoStyle
    /\ query = [fn |-> "attributes", ops |-> <<>>]
    /\ cssEngines = CssEnginesNew
    /\ CssIdle /\ DomIdle /\ LayoutIdle /\ ApplyIdle /\ HitIdle /\ PagesIdle

\* element.set_attribute(name, value)
SetAttributeCall ==
    /\ Len(query.ops) < MaxAttrOps
    /\ \E n \in AttrNamePool, v \in AttrValuePool :
           /\ element' = SetAttribute(element, n, v)
           /\ query' = [query EXCEPT
                  !.ops = Append(@, [op |-> "set", name |-> n, value |-> v])]
    /\ UNCHANGED <<sheets, computed, cssVars, domVars, layoutVars, applyVars,
                   hitVars, pageVars, cssEngines>>

\* element.remove_attribute(name)
RemoveAttributeCall ==
    /\ Len(query.ops) < MaxAttrOps
    /\ \E n \in AttrNamePool :
           /\ element' = RemoveAttribute(element, n)
           /\ query' = [query EXCEPT
                  !.ops = Append(@, [op |-> "remove", name |-> n, value |-> ""])]
    /\ UNCHANGED <<sheets, computed, cssVars, domVars, layoutVars, applyVars,
                   hitVars, pageVars, cssEngines>>

NextAttr == SetAttributeCall \/ RemoveAttributeCall

SpecAttr == InitAttr /\ [][NextAttr]_vars

----------------------------------------------------------------------------
(* Selectors: matches_selector on an Element, and compute_style with the    *)
(* stylesheet parse_stylesheet makes of a rule                              *)

InitSelector ==
    /\ cssInput \in {<<r>> : r \in SelectorRules}
    /\ sheet = NoSheet
    /\ declList = NoDecls
    /\ element \in SelectorElementPool
    /\ sheets = <<>>
    /\ computed = NoStyle
    /\ DomIdle /\ LayoutIdle /\ RestIdle

\* element.matches_selector(selector)
MatchesSelectorCall ==
    /\ \E sel \in SelectorPool :
           query' = [fn |-> "matches_selector", selector |-> sel,
                     result |-> MatchesSelector(element, sel.text)]
    /\ UNCHANGED <<cssVars, cascadeVars, domVars, layoutVars, applyVars,
                   hitVars, pageVars, cssEngines>>

\* engine.compute_style(element, &[stylesheet]), the stylesheet being the
\* one parse_stylesheet returned
ComputeStyleOfParsedCall ==
    /\ sheet.called
    /\ ~computed.called
    /\ sheets' = <<sheet.result>>
    /\ computed' = [called |-> TRUE,
                    style |-> ComputeStyle(element, <<sheet.result>>)]
    /\ UNCHANGED <<element, cssVars, domVars, layoutVars, restVars>>

NextSelector ==
    \/ ParseStylesheetCall
    \/ ComputeStyleOfParsedCall
    \/ MatchesSelectorCall

SpecSelector == InitSelector /\ [][NextSelector]_vars

----------------------------------------------------------------------------
(* The value parsers and css_to_taffy_style on their inputs: one call of   *)
(* a function of its arguments alone                                       *)

InitValues ==
    /\ CssIdle /\ CascadeIdle /\ DomIdle /\ LayoutIdle /\ RestIdle

ValuesFrame ==
    UNCHANGED <<cssVars, cascadeVars, domVars, layoutVars, applyVars, hitVars,
                pageVars, cssEngines>>

\* engine.parse_length(value)
ParseLengthCall ==
    /\ query = NoQuery
    /\ \E l \in LengthPool :
           query' = [fn |-> "parse_length", arg |-> l,
                     result |-> ParseLength(l.text)]
    /\ ValuesFrame

\* engine.parse_box_values(value)
ParseBoxValuesCall ==
    /\ query = NoQuery
    /\ \E l \in BoxValueLists :
           query' = [fn |-> "parse_box_values", arg |-> l,
                     result |-> ParseBoxValues(Joined(l))]
    /\ ValuesFrame

\* engine.css_to_taffy_style(&computed_style)
CssToTaffyStyleCall ==
    /\ query = NoQuery
    /\ \E cs \in ConvertedStylePool :
           query' = [fn |-> "css_to_taffy_style", arg |-> cs,
                     result |-> CssToTaffyStyle(cs)]
    /\ ValuesFrame

NextValues ==
    \/ ParseLengthCall
    \/ ParseBoxValuesCall
    \/ CssToTaffyStyleCall

SpecValues == InitValues /\ [][NextValues]_vars

----------------------------------------------------------------------------
(* compute_style called again and again, on one CSSEngine or another;       *)
(* query.calls is the list of the calls made, and query.element and         *)
(* query.stylesheets are the caller's element and stylesheets as they were  *)
(* at the start                                                             *)

InitPure ==
    /\ element \in PureElementPool
    /\ sheets \in PureSheetLists
    /\ computed = NoStyle
    /\ cssEngines = CssEnginesNew
    /\ query = [fn |-> "compute_style", calls |-> <<>>,
                element |-> element, stylesheets |-> sheets]
    /\ CssIdle /\ DomIdle /\ LayoutIdle /\ ApplyIdle /\ HitIdle /\ PagesIdle

\* the call made, with what it returned
StyleCall(e, el, stylesheets, returned) ==
    [engine |-> e, element |-> el, stylesheets |-> stylesheets,
     style |-> returned.style]

\* cssEngines[e].compute_style(el, stylesheets): on the caller's element or
\* on another one, with the caller's stylesheets or the user agent's alone
ComputeStyleOnCall ==
    /\ Len(query.calls) < MaxStyleCalls
    /\ \E e \in CssEngineIds,
          el \in {element, MkElement(2, "h1", "class" :> "hl")},
          stylesheets \in {sheets, <<DefaultUserAgent>>} :
           /\ cssEngines' =
                  [cssEngines EXCEPT
                      ![e] = ComputeStyleOn(cssEngines[e], el,
                                            stylesheets).css_engine]
           /\ computed' =
                  [called |-> TRUE,
                   style |-> ComputeStyleOn(cssEngines[e], el, stylesheets).style]
           /\ query' =
                  [query EXCEPT
                      !.calls = Append(@, StyleCall(e, el, stylesheets,
                                           ComputeStyleOn(cssEngines[e], el,
                                                          stylesheets)))]
    /\ UNCHANGED <<element, sheets, cssVars, domVars, layoutVars, applyVars,
                   hitVars, pageVars>>

NextPure == ComputeStyleOnCall

SpecPure == InitPure /\ [][NextPure]_vars

----------------------------------------------------------------------------
(* A LayoutEngine and the calls made on it *)

InitLayout ==
    /\ engine = LayoutEngineNew
    /\ layoutDoc \in LayoutDocPool
    /\ layoutSheets \in LayoutSheetLists
    /\ layoutResult = NoResult
    /\ layoutCalls = 0
    /\ layoutLast = NoCall
    /\ CssIdle /\ CascadeIdle /\ DomIdle /\ RestIdle

\* layout_engine.compute_layout(&document, &stylesheets)
ComputeLayoutCall ==
    /\ layoutCalls < MaxLayoutCalls
    /\ engine' = ComputeLayout(engine, layoutDoc, layoutSheets).engine
    /\ layoutResult' =
           [called |-> TRUE,
            result |-> ComputeLayout(engine, layoutDoc, layoutSheets).result]
    /\ layoutCalls' = layoutCalls + 1
    /\ layoutLast' = [op |-> "compute_layout", prev |-> layoutLast.op]
    /\ UNCHANGED <<layoutDoc, layoutSheets, cssVars, cascadeVars, domVars,
                 restVars>>

\* layout_engine.update_element_layout(element_id, &new_style)
UpdateElementLayoutCall ==
    /\ layoutCalls < MaxLayoutCalls
    /\ \E element_id \in DOMAIN layoutDoc.elements, new_style \in NewStylePool :
           /\ engine' = UpdateElementLayout(engine, element_id, new_style)
           /\ layoutLast' = [op |-> "update_element_layout",
                             prev |-> layoutLast.op,
                             element_id |-> element_id,
                             new_style |-> new_style, ok |-> TRUE]
    /\ layoutCalls' = layoutCalls + 1
    /\ UNCHANGED <<layoutDoc, layoutSheets, layoutResult,
                   cssVars, cascadeVars, domVars,
                 restVars>>

NextLayout == ComputeLayoutCall \/ UpdateElementLayoutCall

SpecLayout == InitLayout /\ [][NextLayout]_vars

----------------------------------------------------------------------------
(* A LayoutEngine whose taffy calls may fail *)

\* layout_engine.compute_layout(&document, &stylesheets) returning Err
ComputeLayoutFails ==
    /\ layoutCalls < MaxLayoutCalls
    /\ \E failure \in Failures(layoutDoc) :
           engine' = ComputeLayoutFailing(engine, layoutDoc, layoutSheets,
                                          failure)
    /\ layoutResult' = [called |-> TRUE, result |-> LayoutError]
    /\ layoutCalls' = layoutCalls + 1
    /\ layoutLast' = [op |-> "compute_layout", prev |-> layoutLast.op]
    /\ UNCHANGED <<layoutDoc, layoutSheets, cssVars, cascadeVars, domVars,
                   restVars>>

\* layout_engine.update_element_layout(element_id, &new_style) returning
\* Err
UpdateElementLayoutFails ==
    /\ layoutCalls < MaxLayoutCalls
    /\ \E element_id \in DOMAIN layoutDoc.elements, new_style \in NewStylePool :
           /\ engine' \in UpdateElementLayoutFailing(engine, element_id,
                                                     new_style)
           /\ layoutLast' = [op |-> "update_element_layout",
                             prev |-> layoutLast.op,
                             element_id |-> element_id,
                             new_style |-> new_style, ok |-> FALSE]
    /\ layoutCalls' = layoutCalls + 1
    /\ UNCHANGED <<layoutDoc, layoutSheets, layoutResult,
                   cssVars, cascadeVars, domVars, restVars>>

NextLayoutFailing ==
    \/ ComputeLayoutCall
    \/ UpdateElementLayoutCall
    \/ ComputeLayoutFails
    \/ UpdateElementLayoutFails

SpecLayoutFailing == InitLayout /\ [][NextLayoutFailing]_vars

\* the same calls, with no stylesheet or the user agent's alone
InitBookkeeping ==
    /\ InitLayout
    /\ Len(layoutSheets) <= 1

SpecBookkeeping == InitBookkeeping /\ [][NextLayoutFailing]_vars

----------------------------------------------------------------------------
(* Hit tests on a LayoutEngine and on the LayoutTree it returned *)

InitHit ==
    /\ engine \in HitEnginePool
    /\ layoutDoc \in LinkedPool
    /\ layoutSheets \in LayoutSheetLists
    /\ layoutResult = NoResult
    /\ layoutCalls = 0
    /\ layoutLast = NoCall
    /\ hitCall = NoHit
    /\ CssIdle /\ CascadeIdle /\ DomIdle /\ ApplyIdle /\ PagesIdle
    /\ QueryIdle

\* layout_engine.hit_test(point)
HitTestCall ==
    /\ \E point \in PointPool :
           \E order \in IterationOrders(DOMAIN engine.layout_cache) :
               hitCall' = [called |-> TRUE, api |-> "hit_test",
                           point |-> point,
                           boxes |-> engine.layout_cache,
                           result |-> HitTest(engine, order, point)]
    /\ UNCHANGED <<cssVars, cascadeVars, domVars, layoutVars, applyVars,
                   pageVars, queryVars>>

\* layout_tree.element_at_point(point)
ElementAtPointCall ==
    /\ layoutResult.called
    /\ \E point \in PointPool :
           \E order \in IterationOrders(DOMAIN TreeBoxes) :
               hitCall' = [called |-> TRUE, api |-> "element_at_point",
                           point |-> point,
                           boxes |-> TreeBoxes,
                           result |-> ElementAtPoint(
                                          layoutResult.result.tree,
                                          order, point)]
    /\ UNCHANGED <<cssVars, cascadeVars, domVars, layoutVars, applyVars,
                   pageVars, queryVars>>

NextHit == ComputeLayoutCall \/ HitTestCall \/ ElementAtPointCall

SpecHit == InitHit /\ [][NextHit]_vars

----------------------------------------------------------------------------
(* load_page calls on one TitanEngine, in sequence or at the same time.    *)
(* Each await of load_page is a step; a stage that returns Err ends the    *)
(* call through `?`, which drops the lock guards it holds.                 *)

InitPages ==
    /\ engine = LayoutEngineNew
    /\ layoutDoc = NoDocument
    /\ layoutSheets = <<>>
    /\ layoutResult = NoResult
    /\ layoutCalls = 0
    /\ layoutLast = NoCall
    /\ pages = [p \in PageIds |-> NotLoaded]
    /\ layoutLock = "free"
    /\ CssIdle /\ CascadeIdle /\ DomIdle /\ ApplyIdle /\ HitIdle /\ QueryIdle

\* page p moves on to pc, having made the call
Stage(p, pc, call) ==
    [pages EXCEPT ![p].pc = pc, ![p].calls = Append(@, call)]

PageFrame ==
    UNCHANGED <<cssVars, cascadeVars, domVars, applyVars, hitVars, queryVars,
                layoutDoc, layoutSheets, layoutResult, layoutCalls,
                layoutLast>>

\* self.security.validate_url(url).await?
ValidateUrl ==
    /\ \E p \in PageIds :
           /\ pages[p].pc = "start"
           /\ \/ pages' = Stage(p, "validated", "validate_url")
              \/ pages' = Stage(p, "failed", "validate_url: Err")
    /\ UNCHANGED <<engine, layoutLock>>
    /\ PageFrame

\* self.network_stack.fetch(url).await?
Fetch ==
    /\ \E p \in PageIds :
           /\ pages[p].pc = "validated"
           /\ \/ pages' = Stage(p, "fetched", "fetch")
              \/ pages' = Stage(p, "failed", "fetch: Err")
    /\ UNCHANGED <<engine, layoutLock>>
    /\ PageFrame

\* self.html_parser.parse(&response.body)?
Parse ==
    /\ \E p \in PageIds :
           /\ pages[p].pc = "fetched"
           /\ \/ \E dom \in ResponsePool :
                     pages' = [Stage(p, "parsed", "parse") EXCEPT
                                  ![p].document = HtmlParse(dom, PageBase(p))]
              \/ pages' = Stage(p, "failed", "parse: Err")
    /\ UNCHANGED <<engine, layoutLock>>
    /\ PageFrame

\* self.css_engine.parse_stylesheets(&document).await?
ParseStylesheetsStage ==
    /\ \E p \in PageIds :
           /\ pages[p].pc = "parsed"
           /\ pages' = [Stage(p, "styled", "parse_stylesheets") EXCEPT
                           ![p].stylesheets =
                               ParseStylesheets(pages[p].document)]
    /\ UNCHANGED <<engine, layoutLock>>
    /\ PageFrame

\* let mut layout_engine = self.layout_engine.write().await
LockLayoutEngine ==
    /\ layoutLock = "free"
    /\ \E p \in PageIds :
           /\ pages[p].pc = "styled"
           /\ pages' = [pages EXCEPT ![p].pc = "locked"]
           /\ layoutLock' = p
    /\ UNCHANGED engine
    /\ PageFrame

\* layout_engine.compute_layout(&document, &stylesheets).await?
ComputeLayoutStage ==
    /\ \E p \in PageIds :
           /\ pages[p].pc = "locked" /\ layoutLock = p
           /\ engine' = ComputeLayout(engine, pages[p].document,
                                      pages[p].stylesheets).engine
           /\ pages' =
                  [pages EXCEPT
                      ![p].pc = "laid_out",
                      ![p].layout_tree =
                          ComputeLayout(engine, pages[p].document,
                                        pages[p].stylesheets).result.tree,
                      ![p].calls = @ \o ComputeLayoutCalls(pages[p].document)]
    /\ UNCHANGED layoutLock
    /\ PageFrame

\* execute_page_scripts, create_render_tree and analyze_page, then
\* Ok(PageHandle::new(..)); the guard of layout_engine is dropped on return
FinishPage ==
    /\ \E p \in PageIds :
           /\ pages[p].pc = "laid_out" /\ layoutLock = p
           /\ \/ pages' = Stage(p, "done", "PageHandle::new")
              \/ pages' = Stage(p, "failed", "render: Err")
    /\ layoutLock' = "free"
    /\ UNCHANGED engine
    /\ PageFrame

NextPages ==
    \/ ValidateUrl \/ Fetch \/ Parse \/ ParseStylesheetsStage
    \/ LockLayoutEngine \/ ComputeLayoutStage \/ FinishPage

SpecPages == InitPages /\ [][NextPages]_vars

----------------------------------------------------------------------------
(* apply_declaration on a ComputedStyle, one declaration after another, as  *)
(* compute_style's loops call it on a style that starts as the default      *)

InitApply ==
    /\ applyStyle = DefaultStyle
    /\ applyDecl = NotApplied
    /\ applyCount = 0
    /\ CssIdle /\ CascadeIdle /\ DomIdle /\ LayoutIdle /\ HitIdle
    /\ PagesIdle /\ QueryIdle

\* self.apply_declaration(&mut computed_style, declaration)
ApplyDeclarationCall ==
    /\ applyCount < MaxApplied
    /\ \E d \in ApplyDeclPool :
           /\ applyStyle' = ApplyDeclaration(applyStyle, d)
           /\ applyDecl' = d
    /\ applyCount' = applyCount + 1
    /\ UNCHANGED <<cssVars, cascadeVars, domVars, layoutVars, hitVars,
                   pageVars, queryVars>>

NextApply == ApplyDeclarationCall

SpecApply == InitApply /\ [][NextApply]_vars

----------------------------------------------------------------------------
(* Properties of the cascade *)

Props == {"color", "margin"}

\* the field of a ComputedStyle that property P is resolved into
PropValue(style, P) == IF P = "color" THEN style.color ELSE style.margin

\* the value a parseable declaration of P resolves to
Resolved(P, value) ==
    IF P = "color" THEN ParseColor(value).v ELSE ParseBoxValues(value)

Sets(declarations, P) ==
    \E i \in DOMAIN declarations : declarations[i].property = P

\* the value of the last declaration of P
LastValue(declarations, P) ==
    LET last == CHOOSE i \in DOMAIN declarations :
                    /\ declarations[i].property = P
                    /\ \A j \in DOMAIN declarations :
                           declarations[j].property = P => j <= i
    IN declarations[last].value

RuleMatches(rule, el) ==
    \E i \in DOMAIN rule.selectors : SelectorMatches(rule.selectors[i], el)

\* rule j of sheet s matches the element and sets P
Competes(s, j, P) ==
    /\ RuleMatches(sheets[s].rules[j], element)
    /\ Sets(sheets[s].rules[j].declarations, P)

\* rules i < j of author sheet s both match the element and set P, and no
\* inline declaration sets P
TwoAuthorRules(s, i, j, P) ==
    /\ sheets[s].origin = "Author"
    /\ i < j
    /\ Competes(s, i, P) /\ Competes(s, j, P)
    /\ ~Sets(InlineDeclsOf(element), P)

\* no rule after rule j of sheet s, in the list as handed over, matches the
\* element and sets P
LastToSet(s, j, P) ==
    \A s2 \in DOMAIN sheets : \A j2 \in DOMAIN sheets[s2].rules :
        (s2 > s \/ (s2 = s /\ j2 > j)) => ~Competes(s2, j2, P)

RuleValue(s, j, P) ==
    Resolved(P, LastValue(sheets[s].rules[j].declarations, P))

\* C1, as amended: of two rules R1 (earlier) and R2 (later) of one author
\* stylesheet that both match the element and both set P, with no inline
\* declaration of P and no matching rule after R2 in the list (in the same
\* or in a later stylesheet) that sets P, the computed P is R2's value.
C1_LaterRuleWins ==
    computed.called =>
        \A s \in DOMAIN sheets : \A i, j \in DOMAIN sheets[s].rules :
            \A P \in Props :
                (TwoAuthorRules(s, i, j, P) /\ LastToSet(s, j, P)) =>
                    PropValue(computed.style, P) = RuleValue(s, j, P)

\* C1's case: two such rules with different values for P, computed
C1_Witness ==
    /\ computed.called
    /\ \E s \in DOMAIN sheets : \E i, j \in DOMAIN sheets[s].rules :
           \E P \in Props :
               /\ TwoAuthorRules(s, i, j, P) /\ LastToSet(s, j, P)
               /\ RuleValue(s, i, P) # RuleValue(s, j, P)
               /\ PropValue(computed.style, P) = RuleValue(s, j, P)

\* C1 as stated: the computed P is R2's value whenever R1 and R2 are two
\* matching rules of one author stylesheet that set P and no inline
\* declaration sets P, whatever else the list holds after R2.
C1_AsStated ==
    computed.called =>
        \A s \in DOMAIN sheets : \A i, j \in DOMAIN sheets[s].rules :
            \A P \in Props :
                TwoAuthorRules(s, i, j, P) =>
                    PropValue(computed.style, P) = RuleValue(s, j, P)

\* C2: every property declared in the style attribute has, in the computed
\* style, the value of its last inline declaration.
C2_InlineWins ==
    computed.called =>
        \A P \in Props :
            Sets(InlineDeclsOf(element), P) =>
                PropValue(computed.style, P) =
                    Resolved(P, LastValue(InlineDeclsOf(element), P))

\* the last rule of sheet s that matches the element and sets P
LastCompeting(s, P) ==
    CHOOSE j \in DOMAIN sheets[s].rules :
        /\ Competes(s, j, P)
        /\ \A j2 \in DOMAIN sheets[s].rules : Competes(s, j2, P) => j2 <= j

\* C3: when the list is a user-agent sheet and an author sheet, in either
\* order, each with a rule that matches the element and sets P, and no
\* inline declaration sets P, the computed P is the author sheet's value.
C3_AuthorOverUserAgent ==
    computed.called =>
        \A u, a \in DOMAIN sheets : \A P \in Props :
            (/\ Len(sheets) = 2
             /\ sheets[u].origin = "UserAgent"
             /\ sheets[a].origin = "Author"
             /\ \E j \in DOMAIN sheets[u].rules : Competes(u, j, P)
             /\ \E j \in DOMAIN sheets[a].rules : Competes(a, j, P)
             /\ ~Sets(InlineDeclsOf(element), P)) =>
                PropValue(computed.style, P) =
                    RuleValue(a, LastCompeting(a, P), P)

\* rule j of sheet s is the one rule of the whole list that matches the
\* element, its sheet is an author sheet, and the element has no style
\* attribute
OnlyMatch(s, j) ==
    /\ sheets[s].origin = "Author"
    /\ RuleMatches(sheets[s].rules[j], element)
    /\ \A s2 \in DOMAIN sheets : \A j2 \in DOMAIN sheets[s2].rules :
           RuleMatches(sheets[s2].rules[j2], element) => (s2 = s /\ j2 = j)
    /\ "style" \notin DOMAIN element.attributes

\* the declared value of every property the declarations set, and the
\* built-in default of every other
DeclaredOrDefault(declarations) ==
    [DefaultStyle EXCEPT
        !.color = IF Sets(declarations, "color")
                  THEN Resolved("color", LastValue(declarations, "color"))
                  ELSE @,
        !.margin = IF Sets(declarations, "margin")
                   THEN Resolved("margin", LastValue(declarations, "margin"))
                   ELSE @]

----------------------------------------------------------------------------
(* Properties of the style text parsers *)

AllWellFormed == \A i \in DOMAIN cssInput : cssInput[i].good

\* the rule a well-formed rule of the input stands for
ExpectedRule(r) == StyleRule(<<r.selector>>, r.declarations)

\* C8: of a text of N well-formed rules, parse_stylesheet returns N style
\* rules in source order, rule i with selector i and the declarations of
\* block i.
C8_EveryRuleParsed ==
    (sheet.called /\ AllWellFormed) =>
        sheet.result.rules = [i \in DOMAIN cssInput |-> ExpectedRule(cssInput[i])]

\* C9: of a block of k well-formed declarations, the parsed declaration
\* list has the k declarations, in source order.
C9_EveryDeclarationParsed ==
    (declList.called /\ cssInput[1].good) =>
        declList.declarations = cssInput[1].declarations

\* C10: parse_stylesheet returns a Stylesheet, and every well-formed rule
\* that follows a malformed rule is in the result.
C10_MalformedRuleSkipped ==
    sheet.called =>
        /\ sheet.result.ok
        /\ \A i, j \in DOMAIN cssInput :
               (i < j /\ ~cssInput[i].good /\ cssInput[j].good) =>
                   \E k \in DOMAIN sheet.result.rules :
                       sheet.result.rules[k] = ExpectedRule(cssInput[j])

----------------------------------------------------------------------------
(* Properties of Document construction *)

Nodes == DOMAIN document.elements

\* the nodes that list id among their children
ParentsListing(id) ==
    {n \in Nodes : \E k \in DOMAIN document.elements[n].children :
                       document.elements[n].children[k] = id}

\* how many times id is in the child list of n
TimesListed(n, id) ==
    Cardinality({k \in DOMAIN document.elements[n].children :
                     document.elements[n].children[k] = id})

\* C6: in a built Document every node other than the root has a parent
\* recorded, is once in that parent's child list and in no other child
\* list, and every id of a child list, a parent reference or a shortcut is
\* a key of the elements map.
C6_TreeShape ==
    document.built =>
        /\ \A id \in Nodes \ {document.root.id} :
               /\ document.elements[id].parent.some
               /\ ParentsListing(id) = {document.elements[id].parent.v}
               /\ TimesListed(document.elements[id].parent.v, id) = 1
        /\ \A id \in Nodes :
               /\ \A k \in DOMAIN document.elements[id].children :
                      document.elements[id].children[k] \in Nodes
               /\ document.elements[id].parent.some =>
                      document.elements[id].parent.v \in Nodes
        /\ document.root.id \in Nodes
        /\ document.head.some => document.head.v.id \in Nodes
        /\ document.body.some => document.body.v.id \in Nodes

\* the elements traverse_node made of the markup, those after the
\* placeholder of Document::new; their ids rise in document order
Traversed(doc) == DOMAIN doc.elements \ {1}

Tagged(doc, tag) == {id \in Traversed(doc) : doc.elements[id].tag_name = tag}

\* the first element with the tag, in document order
FirstTagged(doc, tag) ==
    CHOOSE id \in Tagged(doc, tag) : \A other \in Tagged(doc, tag) : id <= other

\* C20: at the end of construction the root, head and body shortcuts each
\* designate the first element with that tag in document order: a later
\* element with the same tag has not overwritten the reference.
C20_ShortcutsKeepFirst ==
    document.built =>
        /\ Tagged(document, "html") # {} =>
               document.root.id = FirstTagged(document, "html")
        /\ Tagged(document, "head") # {} =>
               (document.head.some
                /\ document.head.v.id = FirstTagged(document, "head"))
        /\ Tagged(document, "body") # {} =>
               (document.body.some
                /\ document.body.v.id = FirstTagged(document, "body"))

----------------------------------------------------------------------------
(* Properties of layout *)

\* the box-model relation between the four rectangles of a LayoutBox and
\* the padding, border and margin offsets of its element
BoxArithmetic(b, padding, border, margin) ==
    /\ b.margin_rect.size.width =
           b.content_rect.size.width + padding.left + padding.right
               + border.left + border.right + margin.left + margin.right
    /\ b.margin_rect.size.height =
           b.content_rect.size.height + padding.top + padding.bottom
               + border.top + border.bottom + margin.top + margin.bottom
    /\ b.padding_rect.origin.x = b.content_rect.origin.x - padding.left
    /\ b.padding_rect.origin.y = b.content_rect.origin.y - padding.top
    /\ b.border_rect.origin.x = b.padding_rect.origin.x - border.left
    /\ b.border_rect.origin.y = b.padding_rect.origin.y - border.top
    /\ b.margin_rect.origin.x = b.border_rect.origin.x - margin.left
    /\ b.margin_rect.origin.y = b.border_rect.origin.y - margin.top

\* the style the cascade gives element id of the Document laid out
CascadedStyle(id) == ComputeStyle(layoutDoc.elements[id], layoutSheets)

\* the style taffy holds for element id
HeldStyle(id) == engine.taffy[engine.element_to_node[id]].style

Lengths(rect) == [k \in DOMAIN rect |-> rect[k].v]


\* C4: every LayoutBox of the LayoutTree compute_layout returned obeys the
\* box-model arithmetic for the offsets the cascade resolved for its
\* element, and every LayoutBox of the engine's cache (written by
\* compute_layout, rewritten by update_element_layout) obeys it for the
\* offsets of the style its node holds: margin_rect is content_rect grown
\* by padding, border and margin, and each outer origin is the inner origin
\* moved by the left and top offset.
C4_BoxModelArithmetic ==
    /\ layoutResult.called =>
           \A id \in DOMAIN TreeBoxes :
               BoxArithmetic(TreeBoxes[id], CascadedStyle(id).padding,
                             CascadedStyle(id).border_width,
                             CascadedStyle(id).margin)
    /\ \A id \in DOMAIN engine.layout_cache :
           BoxArithmetic(engine.layout_cache[id], Lengths(HeldStyle(id).padding),
                         Lengths(HeldStyle(id).border),
                         Lengths(HeldStyle(id).margin))

AllPositive(box_values) ==
    /\ box_values.left > 0 /\ box_values.right > 0
    /\ box_values.top > 0 /\ box_values.bottom > 0

\* C4's case: compute_layout has returned a box whose element has non-zero
\* padding, border and margin on every side, and update_element_layout has
\* rewritten the box of an element with non-zero margins
C4_Witness ==
    /\ layoutResult.called
    /\ \E id \in DOMAIN TreeBoxes :
           /\ AllPositive(CascadedStyle(id).padding)
           /\ AllPositive(CascadedStyle(id).border_width)
           /\ AllPositive(CascadedStyle(id).margin)
           /\ TreeBoxes[id].margin_rect.size.width
                  > TreeBoxes[id].content_rect.size.width
    /\ \E id \in DOMAIN engine.layout_cache :
           /\ id \in DOMAIN TreeBoxes
           /\ engine.layout_cache[id] # TreeBoxes[id]
           /\ AllPositive(Lengths(HeldStyle(id).margin))
           /\ AllPositive(Lengths(HeldStyle(id).padding))

\* outer contains inner
ContainsRect(outer, inner) ==
    /\ outer.origin.x <= inner.origin.x
    /\ outer.origin.y <= inner.origin.y
    /\ outer.origin.x + outer.size.width >= inner.origin.x + inner.size.width
    /\ outer.origin.y + outer.size.height >= inner.origin.y + inner.size.height

Nested(b) ==
    /\ ContainsRect(b.margin_rect, b.border_rect)
    /\ ContainsRect(b.border_rect, b.padding_rect)
    /\ ContainsRect(b.padding_rect, b.content_rect)

\* C5: in every LayoutBox compute_layout returned, margin_rect contains
\* border_rect, border_rect contains padding_rect and padding_rect contains
\* content_rect, whatever the declarations resolved to.
C5_RectanglesNested ==
    layoutResult.called => \A id \in DOMAIN TreeBoxes : Nested(TreeBoxes[id])

BuiltFromMarkup(doc) == \E dom \in PagePool : doc = FromRcdom(dom)

\* the elements made of the markup: all but the placeholder root of
\* Document::new
MarkupNodes(doc) == DOMAIN doc.elements \ {DocumentNew("").root.id}

\* C7: the LayoutTree of a Document built from markup has a LayoutBox for
\* every node of the Document and for nothing else.
C7_OneBoxPerNode ==
    (layoutResult.called /\ BuiltFromMarkup(layoutDoc)) =>
        DOMAIN TreeBoxes = MarkupNodes(layoutDoc)

----------------------------------------------------------------------------
(* Properties of apply_declaration *)

\* the field of a ComputedStyle a recognized property is written to
StyleField(style, P) ==
    CASE P = "color" -> style.color
      [] P = "background-color" -> style.background_color
      [] P = "font-size" -> style.font_size
      [] P = "font-weight" -> style.font_weight
      [] P = "display" -> style.display
      [] P = "position" -> style.position
      [] P = "width" -> style.width
      [] P = "height" -> style.height
      [] P = "margin" -> style.margin
      [] P = "padding" -> style.padding
      [] P = "border-width" -> style.border_width

\* C11: a declaration of a recognized property whose value cannot be parsed
\* leaves the property at the value it had immediately before the
\* declaration was applied
C11_UnparseableKeepsPrior ==
    [][(applyCount' = applyCount + 1 /\ applyDecl' \in UnparseablePool) =>
           StyleField(applyStyle', applyDecl'.property) =
               StyleField(applyStyle, applyDecl'.property)]_vars

\* the typed fields of a ComputedStyle
TypedFields(style) == [style EXCEPT !.custom_properties = EmptyMap]

\* the custom-property map after a declaration was stored in it: the name
\* holds the value, the other names what they held
StoredIn(before, after, d) ==
    /\ DOMAIN after = DOMAIN before \cup {d.property}
    /\ after[d.property] = d.value
    /\ \A name \in DOMAIN before \ {d.property} : after[name] = before[name]

\* C27: a declaration whose property name is not one of the recognized
\* names is stored in the custom-property map under exactly that name with
\* exactly its value, replacing an earlier value of the name, and changes no
\* typed field; a declaration of a recognized property leaves the
\* custom-property map as it was.
C27_ClosedDispatch ==
    [][applyCount' = applyCount + 1 =>
           IF applyDecl'.property \in RecognizedNames
           THEN applyStyle'.custom_properties = applyStyle.custom_properties
           ELSE /\ StoredIn(applyStyle.custom_properties,
                            applyStyle'.custom_properties, applyDecl')
                /\ TypedFields(applyStyle') = TypedFields(applyStyle)]_vars

\* C27's case: two declarations of names without an arm were applied, the
\* second a property that differs from a recognized one by its case only;
\* both are in the map and the typed fields are the defaults
C27_Witness ==
    /\ applyCount = 2
    /\ applyDecl = Declaration("Color", "red")
    /\ applyStyle.custom_properties = ("--accent" :> "teal") @@ ("Color" :> "red")
    /\ TypedFields(applyStyle) = TypedFields(DefaultStyle)

----------------------------------------------------------------------------
(* Properties of update_element_layout *)

\* a box as wide as the viewport leaves after the margins
ViewportSized(box, margin) ==
    box.content_rect.size.width =
        Max(0, F(ViewportWidth) - margin.left - margin.right)

UpdateStep ==
    /\ layoutCalls' = layoutCalls + 1
    /\ layoutLast'.op = "update_element_layout"

\* C13: update_element_layout(id, new_style) leaves the cached box of every
\* element outside the subtree of id as it was, adds and removes no cache
\* entry, and lays the named node out against the viewport of the full
\* computation: without a width of its own it is as wide as the viewport
\* leaves after its margins.
C13_UpdateFrame ==
    [][UpdateStep =>
           /\ DOMAIN engine'.layout_cache = DOMAIN engine.layout_cache
           /\ \A id \in DOMAIN engine.layout_cache :
                  id \notin SubtreeOf(layoutDoc, layoutLast'.element_id) =>
                      engine'.layout_cache[id] = engine.layout_cache[id]
           /\ (/\ layoutLast'.element_id \in DOMAIN engine.layout_cache
               /\ ~layoutLast'.new_style.width.some) =>
                  ViewportSized(engine'.layout_cache[layoutLast'.element_id],
                                layoutLast'.new_style.margin)]_vars

\* C13's case: after a full computation, an update has rewritten the box of
\* an element below the root, and a box outside its subtree is still the
\* one the full computation returned
C13_Witness ==
    /\ layoutResult.called
    /\ layoutLast.op = "update_element_layout"
    /\ layoutLast.element_id \in DOMAIN engine.layout_cache
    /\ layoutLast.element_id # layoutDoc.root.id
    /\ engine.layout_cache[layoutLast.element_id] #
           TreeBoxes[layoutLast.element_id]
    /\ ~layoutLast.new_style.width.some
    /\ ViewportSized(engine.layout_cache[layoutLast.element_id],
                     layoutLast.new_style.margin)
    /\ \E id \in DOMAIN engine.layout_cache :
           /\ id \notin SubtreeOf(layoutDoc, layoutLast.element_id)
           /\ layoutDoc.elements[id].parent =
                  layoutDoc.elements[layoutLast.element_id].parent
           /\ engine.layout_cache[id] = TreeBoxes[id]

----------------------------------------------------------------------------
(* Properties of a failing compute_layout *)

\* C14: after a compute_layout that returned an error, no LayoutTree is
\* held as its result and the boxes the engine answers get_layout_box and
\* hit_test from are not those of only some elements of the tree: the cache
\* is empty or covers every element below the root.
C14_FailureAllOrNothing ==
    (layoutLast.op = "compute_layout" /\ ~layoutResult.result.ok) =>
        /\ "tree" \notin DOMAIN layoutResult.result
        /\ DOMAIN engine.layout_cache \in
               {{}, SubtreeOf(layoutDoc, layoutDoc.root.id)}

----------------------------------------------------------------------------
(* Properties of repeated computation *)

\* a compute_layout that follows a compute_layout that returned a tree
SecondRun ==
    /\ layoutLast.op = "compute_layout" /\ layoutResult.result.ok
    /\ layoutCalls' = layoutCalls + 1
    /\ layoutLast'.op = "compute_layout" /\ layoutResult'.result.ok

\* C15: a compute_layout that directly follows a compute_layout on the same
\* document and stylesheets returns the same LayoutTree (root id, node ids,
\* the four rectangles and the baseline of every node) and leaves the
\* engine as the first run left it.
C15_Idempotent ==
    [][SecondRun =>
           /\ layoutResult'.result.tree = layoutResult.result.tree
           /\ engine' = engine]_vars

\* C15's case: the second of two runs in a row has returned a tree of at
\* least three boxes, one of them away from the origin
C15_Witness ==
    /\ layoutLast.op = "compute_layout" /\ layoutLast.prev = "compute_layout"
    /\ layoutResult.result.ok
    /\ Cardinality(DOMAIN TreeBoxes) >= 3
    /\ \E id \in DOMAIN TreeBoxes : TreeBoxes[id].content_rect.origin.y > 0
    /\ TreeBoxes = engine.layout_cache

----------------------------------------------------------------------------
(* Properties of hit testing *)

\* the boxes the call was answered from
HitBoxes == hitCall.boxes

IsLeaf(id) == layoutDoc.elements[id].children = <<>>

\* the point lies strictly inside the content rectangle of leaf id and in
\* the border rectangle of no other leaf
InsideLeaf(id, point) ==
    /\ IsLeaf(id)
    /\ ContainsPointInside(HitBoxes[id].content_rect, point)
    /\ \A other \in DOMAIN HitBoxes \ {id} :
           IsLeaf(other) => ~ContainsPoint(HitBoxes[other].border_rect, point)

\* C16: on a computed layout, hit_test and element_at_point of a point
\* strictly inside the content rectangle of a leaf return that leaf's id,
\* also when border rectangles of its ancestors contain the point.
C16_HitResolvesToLeaf ==
    (hitCall.called /\ layoutResult.called /\ hitCall.boxes = TreeBoxes) =>
        \A id \in DOMAIN HitBoxes :
            InsideLeaf(id, hitCall.point) => hitCall.result = Some(id)

\* the point is in the rectangle or on its edge
OnOrInside(rect, point) ==
    /\ rect.origin.x <= point.x /\ point.x - rect.origin.x <= rect.size.width
    /\ rect.origin.y <= point.y /\ point.y - rect.origin.y <= rect.size.height

\* the ids whose cached border rectangle holds the point
Holding(point) ==
    {id \in DOMAIN HitBoxes : OnOrInside(HitBoxes[id].border_rect, point)}

\* C17: hit_test returns an id only if the border rectangle cached for that
\* id contains the point, edges included; it returns an id whenever some
\* cached border rectangle contains the point, and None exactly when none
\* does.
C17_HitSoundAndComplete ==
    (hitCall.called /\ hitCall.api = "hit_test") =>
        /\ hitCall.result.some => hitCall.result.v \in Holding(hitCall.point)
        /\ hitCall.result.some <=> Holding(hitCall.point) # {}

\* C17's case: hit_test has answered for a point on the edge of the border
\* rectangle it returned, with a cached box that does not hold the point
C17_Witness ==
    /\ hitCall.called /\ hitCall.api = "hit_test"
    /\ hitCall.result.some
    /\ hitCall.result.v \in Holding(hitCall.point)
    /\ ~ContainsPointInside(HitBoxes[hitCall.result.v].border_rect,
                            hitCall.point)
    /\ Holding(hitCall.point) # DOMAIN HitBoxes

----------------------------------------------------------------------------
(* Properties of page loads *)

LaidOut(p) == pages[p].pc \in {"laid_out", "done"}

PageBoxes(p) == pages[p].layout_tree.layout_boxes

\* every answer hit_test can give for the point is an id of page p
HitStaysIn(p, point) ==
    \A order \in IterationOrders(DOMAIN engine.layout_cache) :
        /\ HitTest(engine, order, point).some
        /\ HitTest(engine, order, point).v \in DOMAIN PageBoxes(p)

\* C18: once a page is laid out, the engine goes on answering for its
\* elements as its own LayoutTree does, whatever other pages are loaded:
\* get_layout_box of each of its elements is the box of its tree, and
\* hit_test of a point in one of its boxes is one of its elements.
C18_PagesIndependent ==
    \A p \in PageIds :
        LaidOut(p) =>
            /\ \A id \in DOMAIN PageBoxes(p) :
                   GetLayoutBox(engine, id) = Some(PageBoxes(p)[id])
            /\ \A point \in PointPool :
                   (\E id \in DOMAIN PageBoxes(p) :
                        ContainsPoint(PageBoxes(p)[id].border_rect, point))
                       => HitStaysIn(p, point)

\* every call a comes before every call b
Before(calls, a, b) ==
    \A i, j \in DOMAIN calls : (calls[i] = a /\ calls[j] = b) => i < j

Made(calls, a) == \E i \in DOMAIN calls : calls[i] = a

\* b was made only after a had returned
Follows(calls, a, b) == Before(calls, a, b) /\ (Made(calls, b) => Made(calls, a))

StageErrors == {"validate_url: Err", "fetch: Err", "parse: Err"}

----------------------------------------------------------------------------
(* Properties of the Document queries *)

\* the Element nodes of the markup, in document order
RECURSIVE MarkupElements(_)
RECURSIVE MarkupElementsOf(_)
MarkupElements(node) ==
    (IF node.kind = "Element" THEN <<ElementOf(node, 0)>> ELSE <<>>)
    \o MarkupElementsOf(node.children)

MarkupElementsOf(children) ==
    IF children = <<>> THEN <<>>
    ELSE MarkupElements(Head(children)) \o MarkupElementsOf(Tail(children))

\* how many elements of the markup satisfy the closure of a query
MarkupCount(dom, Pred(_, _), arg) ==
    Cardinality({i \in DOMAIN MarkupElements(dom) :
                     Pred(MarkupElements(dom)[i], arg)})

\* a collection result: every element returned satisfies the closure, none
\* is returned twice, and there are as many as the markup has
ExactlyThose(result, Pred(_, _), arg) ==
    /\ \A i \in DOMAIN result : Pred(document.elements[result[i]], arg)
    /\ \A i, j \in DOMAIN result : result[i] = result[j] => i = j
    /\ Len(result) = MarkupCount(rcdom, Pred, arg)

\* C21: on a Document built from markup, get_elements_by_tag_name(t)
\* returns exactly the elements of the markup whose tag equals t ignoring
\* ASCII case, get_elements_by_class_name(c) exactly those whose class
\* attribute has c among its whitespace separated tokens, each once, and
\* get_element_by_id(v) an element whose id attribute is v when the markup
\* has one and none when it has not.
C21_QueryExact ==
    /\ query.fn = "get_elements_by_tag_name" =>
           ExactlyThose(query.result, TagNameIs, query.arg)
    /\ query.fn = "get_elements_by_class_name" =>
           ExactlyThose(query.result, ClassNameHas, query.arg)
    /\ query.fn = "get_element_by_id" =>
           IF MarkupCount(rcdom, IdIs, query.arg) > 0
           THEN /\ query.result.some
                /\ IdIs(document.elements[query.result.v], query.arg)
           ELSE ~query.result.some

----------------------------------------------------------------------------
(* Properties of the attribute map *)

\* the calls made on a name, in the order made
OpsOn(ops, name) == SelectSeq(ops, LAMBDA o : o.name = name)

\* what the calls made so far leave a name with: the value of the last
\* set_attribute when no remove_attribute came after it
Remaining(ops, name) ==
    IF OpsOn(ops, name) = <<>> THEN None
    ELSE IF OpsOn(ops, name)[Len(OpsOn(ops, name))].op = "set"
    THEN Some(OpsOn(ops, name)[Len(OpsOn(ops, name))].value)
    ELSE None

\* C22: after any sequence of set_attribute and remove_attribute calls,
\* get_attribute(n) returns the value of the most recent set of n that no
\* remove of n followed and none otherwise, for every name n (so a call on
\* one name leaves the others as they were), and has_attribute(n) is true
\* exactly when get_attribute(n) is some.
C22_AttributeMap ==
    query.fn = "attributes" =>
        \A n \in AttrNamePool :
            /\ GetAttribute(element, n) = Remaining(query.ops, n)
            /\ HasAttribute(element, n) <=> GetAttribute(element, n).some

\* C22's case: a value replaced by a later set, between them the removal of
\* an attribute the element does not have
C22_Witness ==
    /\ query.fn = "attributes"
    /\ query.ops = <<[op |-> "set", name |-> "id", value |-> "a"],
                     [op |-> "remove", name |-> "class", value |-> ""],
                     [op |-> "set", name |-> "id", value |-> "b"]>>
    /\ GetAttribute(element, "id") = Some("b")
    /\ ~HasAttribute(element, "class")

----------------------------------------------------------------------------
(* Properties of the title and the text of a Document *)

\* the text found inside a node of the markup: its Text descendants, joined
\* in document order
RECURSIVE TextInside(_)
RECURSIVE TextInsideOf(_)
TextInside(node) ==
    IF node.kind = "Text" THEN node.contents ELSE TextInsideOf(node.children)

TextInsideOf(children) ==
    IF children = <<>> THEN ""
    ELSE TextInside(Head(children)) \o TextInsideOf(Tail(children))

\* the text inside every Element node of the markup, in document order
RECURSIVE MarkupTexts(_)
RECURSIVE MarkupTextsOf(_)
MarkupTexts(node) ==
    (IF node.kind = "Element" THEN <<TextInside(node)>> ELSE <<>>)
    \o MarkupTextsOf(node.children)

MarkupTextsOf(children) ==
    IF children = <<>> THEN <<>>
    ELSE MarkupTexts(Head(children)) \o MarkupTextsOf(Tail(children))

\* traverse_node gives the k-th Element node of the markup the k-th
\* ElementId after the placeholder's
IdOfMarkup(k) == DocumentNew("").root.id + k

\* C23: after parsing markup whose head holds a title element with text T
\* the Document's title is T, the head and body shortcuts are both present,
\* and the text content of every element is the text found inside it in the
\* markup.
C23_TitleAndText ==
    document.built =>
        /\ \A k \in DOMAIN MarkupElements(rcdom) :
               MarkupElements(rcdom)[k].tag_name = "title" =>
                   document.title = MarkupTexts(rcdom)[k]
        /\ document.head.some
        /\ document.body.some
        /\ \A k \in DOMAIN MarkupTexts(rcdom) :
               TextContent(document.elements[IdOfMarkup(k)])
                   = MarkupTexts(rcdom)[k]

----------------------------------------------------------------------------
(* Properties of selector matching *)

\* what a selector of the inputs designates: the elements with its tag
\* ignoring ASCII case, with its id, or with its class among the tokens
Designates(sel, el) ==
    CASE sel.kind = "tag" -> ToAsciiLower(el.tag_name) = ToAsciiLower(sel.name)
      [] sel.kind = "id" ->
           HasAttribute(el, "id") /\ el.attributes["id"] = sel.name
      [] sel.kind = "class" ->
           /\ HasAttribute(el, "class")
           /\ HasWord(SplitWhitespace(el.attributes["class"]), sel.name)

\* C24: a plain name matches exactly the elements with that tag ignoring
\* ASCII case, `#v` exactly those whose id attribute is v, `.v` exactly
\* those whose class attribute has the token v; and a rule whose selector
\* part lists several selectors separated by commas applies, here by
\* setting the colour its block declares, when at least one of them matches.
C24_SelectorMatching ==
    /\ query.fn = "matches_selector" =>
           (query.result <=> Designates(query.selector, element))
    /\ computed.called =>
           ((\E i \in DOMAIN cssInput[1].selectors :
                 Designates(cssInput[1].selectors[i], element))
            => computed.style.color = ParseColor("red").v)

----------------------------------------------------------------------------
(* Properties of the value parsers *)

\* the length a text of the inputs writes: n for px, % and no unit, 16 n
\* for em and rem, none for other text
LengthWritten(l) ==
    CASE l.unit \in {"px", "%", ""} -> Some(l.n)
      [] l.unit \in {"em", "rem"} -> Some(16 * l.n)
      [] OTHER -> None

\* C26: parse_length returns n for `<n>px`, 16 n for `<n>em`, 16 n for
\* `<n>rem`, n for `<n>%`, n for the unit-less `<n>`, and no value for other
\* text.
C26_LengthParsing ==
    query.fn = "parse_length" => query.result = LengthWritten(query.arg)

\* the i-th length of a shorthand value
V(lengths, i) == LengthWritten(lengths[i]).v

\* the sides a shorthand of k lengths stands for
Sides(lengths) ==
    CASE Len(lengths) = 1 ->
           BoxValues(V(lengths, 1), V(lengths, 1), V(lengths, 1), V(lengths, 1))
      [] Len(lengths) = 2 ->
           BoxValues(V(lengths, 1), V(lengths, 2), V(lengths, 1), V(lengths, 2))
      [] Len(lengths) = 3 ->
           BoxValues(V(lengths, 1), V(lengths, 2), V(lengths, 3), V(lengths, 2))
      [] Len(lengths) = 4 ->
           BoxValues(V(lengths, 1), V(lengths, 2), V(lengths, 3), V(lengths, 4))
      [] OTHER -> BoxValues(0, 0, 0, 0)

\* C25: for a value of k space-separated lengths v1 .. vk parse_box_values
\* returns (top, right, bottom, left) = (v1, v1, v1, v1) for k = 1,
\* (v1, v2, v1, v2) for k = 2, (v1, v2, v3, v2) for k = 3, (v1, v2, v3, v4)
\* for k = 4 and (0, 0, 0, 0) for every other k, k being the number of
\* space-separated values of the declaration.
C25_BoxShorthand ==
    query.fn = "parse_box_values" => query.result = Sides(query.arg)

----------------------------------------------------------------------------
(* Properties of css_to_taffy_style *)

\* a box of the ComputedStyle carried over to a taffy Rect side for side
SideForSide(rect, box) ==
    /\ rect.top = Length(box.top)
    /\ rect.right = Length(box.right)
    /\ rect.bottom = Length(box.bottom)
    /\ rect.left = Length(box.left)

\* an Option<f32> of the ComputedStyle as a taffy Dimension
FixedOrAuto(dimension, o) ==
    IF o.some THEN dimension = Length(o.v) ELSE dimension = Auto

\* C28: css_to_taffy_style gives position absolute for absolute and fixed,
\* relative for relative and sticky, static for static; display block for
\* block, inline and inline-block, and flex, grid and none unchanged; an
\* explicit width or height becomes a fixed length of the same value and an
\* absent one stays auto; the margin, padding and border sides are carried
\* over side for side.
C28_TaffyStyle ==
    query.fn = "css_to_taffy_style" =>
        /\ query.result.position =
               (CASE query.arg.position \in {"Absolute", "Fixed"} -> "Absolute"
                  [] query.arg.position \in {"Relative", "Sticky"} -> "Relative"
                  [] query.arg.position = "Static" -> "Static")
        /\ query.result.display =
               (IF query.arg.display \in {"Block", "Inline", "InlineBlock"}
                THEN "Block" ELSE query.arg.display)
        /\ FixedOrAuto(query.result.size.width, query.arg.width)
        /\ FixedOrAuto(query.result.size.height, query.arg.height)
        /\ SideForSide(query.result.margin, query.arg.margin)
        /\ SideForSide(query.result.padding, query.arg.padding)
        /\ SideForSide(query.result.border, query.arg.border_width)

\* C28's case: a fixed, inline-block style with a width, no height and
\* four unlike margins was converted
C28_Witness ==
    /\ query.fn = "css_to_taffy_style"
    /\ query.arg.position = "Fixed"
    /\ query.arg.display = "InlineBlock"
    /\ query.arg.width = Some(F(100))
    /\ ~query.arg.height.some
    /\ query.arg.margin = BoxValues(F(1), F(2), F(3), F(4))
    /\ query.result.position = "Absolute"
    /\ query.result.size.height = Auto

----------------------------------------------------------------------------
(* Properties of repeated compute_style calls *)

SameInputs(a, b) == a.element = b.element /\ a.stylesheets = b.stylesheets

----------------------------------------------------------------------------
(* Properties of the LayoutEngine's bookkeeping *)

\* element_to_node and node_to_element are each other's inverse
InverseMaps(eng) ==
    /\ \A id \in DOMAIN eng.element_to_node :
           /\ eng.element_to_node[id] \in DOMAIN eng.node_to_element
           /\ eng.node_to_element[eng.element_to_node[id]] = id
    /\ \A node \in DOMAIN eng.node_to_element :
           /\ eng.node_to_element[node] \in DOMAIN eng.element_to_node
           /\ eng.element_to_node[eng.node_to_element[node]] = node

\* the engine after a call that returned res
Bookkeeping(eng, res, last) ==
    /\ InverseMaps(eng)
    /\ \A node \in DOMAIN eng.taffy : node \in DOMAIN eng.node_to_element
    /\ (last.op = "compute_layout" /\ res.result.ok) =>
           eng.layout_cache = res.result.tree.layout_boxes

\* the step is an update_element_layout call for an element that has no
\* layout node
UpdateWithoutNode ==
    /\ layoutLast'.op = "update_element_layout"
    /\ layoutLast'.element_id \notin DOMAIN engine.element_to_node

\* C30: after every compute_layout and update_element_layout call, failed
\* ones included, element_to_node and node_to_element are inverse maps and
\* every node of the flow tree has an entry in node_to_element; after a
\* successful compute_layout the layout cache holds exactly the boxes of the
\* LayoutTree returned; and update_element_layout for an element without a
\* layout node returns Ok and leaves the engine as it was.
C30_Bookkeeping ==
    [][/\ Bookkeeping(engine', layoutResult', layoutLast')
       /\ UpdateWithoutNode => (layoutLast'.ok /\ engine' = engine)]_vars

\* C30's case: after a compute_layout that filled the maps and the cache,
\* update_element_layout was called for an element of the Document that has
\* no layout node
C30_Witness ==
    /\ layoutLast.op = "update_element_layout"
    /\ layoutLast.prev = "compute_layout"
    /\ layoutResult.result.ok
    /\ layoutLast.element_id \notin DOMAIN engine.element_to_node
    /\ DOMAIN engine.element_to_node # {}
    /\ engine.layout_cache = TreeBoxes

====
